---- MODULE Spec2Model ----
(***************************************************************************)
(* Verification model of hiscaledev/contact-scraper.                       *)
(*                                                                         *)
(* Three state machines are modelled:                                        *)
(*                                                                         *)
(*  Spec     the outer WorkerPool of app/services/worker_service.py: the   *)
(*           submitting threads, the single dispatcher thread and one      *)
(*           worker thread per launched job.                               *)
(*  SpecJob  one batch job: the job function of app/services/              *)
(*           csv_service.py (rows handled one after the other) or of       *)
(*           app/services/linkedin_csv_service.py (rows handled by an      *)
(*           inner ThreadPoolExecutor, results collected by the job's own  *)
(*           thread), together with the job record kept in the job store   *)
(*           by app/core/database.py.                                      *)
(*                                                                         *)
(*  SpecPipe the per-site scrape pipeline: scrape_website of                *)
(*           app/services/contact_service.py and scrape_linkedin_only of   *)
(*           app/services/linkedin_service.py, called one after the other  *)
(*           against the Redis cache, with the fetcher and the AI          *)
(*           assistant answering in every way they can.                    *)
(*                                                                         *)
(* Each specification leaves the other machines' variables at their        *)
(* initial values.                                                         *)
(***************************************************************************)
EXTENDS Integers, Sequences, FiniteSets, TLC

VARIABLES
    \* ---- WorkerPool (worker_service.py) ----
    job_queue,        \* self.job_queue: FIFO of submitted job ids
    active_workers,   \* self.active_workers
    running,          \* self.running
    dispatcher,       \* the dispatcher thread: [pc, job_data]
    worker,           \* per job: where its worker thread is
    submitted,        \* number of submit_job calls made so far
    launch_order,     \* history: job ids in the order worker_thread.start() ran
    unlaunched_at_shutdown, \* history: the jobs shutdown() found not yet launched
    \* ---- one batch job and its record (csv_service.py, linkedin_csv_service.py, database.py) ----
    variant,          \* which job function runs: "csv" or "linkedin"
    rec,              \* the job's row in contact_scraper_jobs
    jpc,              \* position of the job function's own thread
    rows,             \* per row: its input kind
    task,             \* per row: where its handling is
    row_data,         \* per row: what process_single_row returned
    scrape_status,    \* per row: df.at[index, "scrape_status"]
    cur,              \* the row the job's own thread is handling (0: none)
    job_data,         \* increment_job_progress's local snapshot of the record
    inc_failed,       \* the failed argument of the increment in flight
    inc_calls,        \* history: per row, calls of increment_job_progress
    failed_reported,  \* history: increments called with failed=True
    completed_writes, \* history: writes of status "completed"
    fatal,            \* history: a job-level fatal error happened
    clock,            \* logical time of the job store's writes (datetime.now())
    columns,          \* df.columns of the input table
    website_column,   \* the name of the URL column the job was given
    hist,             \* history of the job: the table was read, pipeline calls per row, rows whose
                      \* handling raised, the row each output row was computed
                      \* from, uploads of the output
    \* ---- the scrape pipeline and the cache (contact_service.py, linkedin_service.py, database.py) ----
    pipeline,         \* which function is called: "full" or "linkedin"
    raw,              \* the website argument as passed, a sequence of characters
    validate_linkedin,  \* argument of scrape_website
    skip_contact_page,  \* argument of scrape_website
    ppc,              \* position of the call
    website,          \* the local variable website
    cache,            \* Redis: key -> stored document, live entries only
    written_status,   \* history: key -> status of the result that was cached under it
    written_fallback, \* history: the keys whose entry was written after a failed validation
    home,             \* what was extracted from the homepage
    found,            \* emails, phones, linkedin_urls as they stand
    contact_page,     \* what find_contact_page returned
    fetched,          \* history: the URLs passed to fetch_page in this call
    ai_calls,         \* history: the AI capabilities called in this call
    cache_ops,        \* history: the Redis operations of this call
    result,           \* what the call returned
    trace,            \* history: how the collaborators answered in this call
    calls,            \* number of calls made so far
    \* ---- normalize_url on its own (scraper_utils.py) ----
    norm_pc,          \* "start", "once", "twice" or "rejected"
    norm_in,          \* the raw text
    norm_plain,       \* the plain spelling the raw text is a spelling of
    norm_out,         \* normalize_url(norm_in)
    norm_plain_out,   \* normalize_url(norm_plain)
    norm_again,       \* normalize_url of norm_out's text
    \* ---- two overlapping calls of scrape_linkedin_only for one site ----
    inv               \* per call: [pc, hit, home, found]

poolVars == <<job_queue, active_workers, running, dispatcher, worker, submitted,
              launch_order, unlaunched_at_shutdown>>
jobVars == <<variant, rec, jpc, rows, task, row_data, scrape_status, cur, job_data,
             inc_failed, inc_calls, failed_reported, completed_writes, fatal, clock,
             columns, website_column, hist>>
pipeVars == <<pipeline, raw, validate_linkedin, skip_contact_page, ppc, website, cache,
              written_status, written_fallback, home, found, contact_page, fetched, ai_calls, cache_ops,
              result, trace, calls>>
normVars == <<norm_pc, norm_in, norm_plain, norm_out, norm_plain_out, norm_again>>
raceVars == <<inv>>
vars == <<job_queue, active_workers, running, dispatcher, worker, submitted,
          launch_order, unlaunched_at_shutdown, variant, rec, jpc, rows, task, row_data, scrape_status, cur,
          job_data, inc_failed, inc_calls, failed_reported, completed_writes,
          fatal, clock, columns, website_column, hist, pipeline, raw, validate_linkedin, skip_contact_page, ppc,
          website, cache, written_status, written_fallback, home, found, contact_page, fetched,
          ai_calls, cache_ops, result, trace, calls, norm_pc, norm_in, norm_plain,
          norm_out, norm_plain_out, norm_again, inv>>

----------------------------------------------------------------------------
(* Bounds of the model *)

\* number of submit_job calls explored
MaxJobs == 4
\* largest number of rows of the batch job's table
MaxRows == 3

(* Program constants *)

\* settings.max_workers, the WorkerPool's ceiling
max_workers == 2

JobIds == 1..MaxJobs

\* the elements of a sequence
Range(q) == {q[i] : i \in 1..Len(q)}

----------------------------------------------------------------------------
(* WorkerPool *)

\* WorkerPool.__init__
PoolInit ==
    /\ job_queue = <<>>
    /\ active_workers = 0
    /\ running = TRUE
    /\ dispatcher = [pc |-> "loop", job_data |-> 0]
    /\ worker = [j \in JobIds |-> "unsubmitted"]
    /\ submitted = 0
    /\ launch_order = <<>>
    /\ unlaunched_at_shutdown = {}

\* queue.Queue.put: the item goes to the tail
QueuePut(q, item) == Append(q, item)

\* a LIFO queue: get takes the newest item
QueueGetNewest(q) == [item |-> q[Len(q)], rest |-> SubSeq(q, 1, Len(q) - 1)]

\* a get that reads the oldest item and leaves it in the queue
QueuePeek(q) == [item |-> Head(q), rest |-> q]

\* queue.Queue.get: the oldest item leaves the queue
QueueGet(q) == [item |-> Head(q), rest |-> Tail(q)]

\* submit_job: builds job_data and puts it on the queue; it does not look at
\* self.running. Job ids number the calls in the order of their put.
submit_job ==
    /\ submitted < MaxJobs
    /\ submitted' = submitted + 1
    /\ job_queue' = QueuePut(job_queue, submitted + 1)
    /\ worker' = [worker EXCEPT ![submitted + 1] = "queued"]
    /\ UNCHANGED <<active_workers, running, dispatcher, launch_order>>
    /\ UNCHANGED unlaunched_at_shutdown
    /\ UNCHANGED <<jobVars, pipeVars, normVars, raceVars>>

\* _dispatcher, line 43: while self.running
dispatcher_loop ==
    /\ dispatcher.pc = "loop"
    /\ dispatcher' = [dispatcher EXCEPT !.pc = IF running THEN "get" ELSE "stopped"]
    /\ UNCHANGED <<job_queue, active_workers, running, worker, submitted, launch_order>>
    /\ UNCHANGED unlaunched_at_shutdown
    /\ UNCHANGED <<jobVars, pipeVars, normVars, raceVars>>

\* _dispatcher, line 46: job_queue.get(timeout=1); queue.Empty -> continue
dispatcher_get ==
    /\ dispatcher.pc = "get"
    /\ IF job_queue # <<>>
       THEN /\ dispatcher' = [pc |-> "slot", job_data |-> QueueGet(job_queue).item]
            /\ job_queue' = QueueGet(job_queue).rest
            /\ worker' = [worker EXCEPT ![QueueGet(job_queue).item] = "claimed"]
       ELSE /\ dispatcher' = [dispatcher EXCEPT !.pc = "loop"]
            /\ UNCHANGED <<job_queue, worker>>
    /\ UNCHANGED <<active_workers, running, submitted, launch_order>>
    /\ UNCHANGED unlaunched_at_shutdown
    /\ UNCHANGED <<jobVars, pipeVars, normVars, raceVars>>

\* a slot check that admits one job too many
SlotFreeOffByOne == active_workers <= max_workers

\* _dispatcher, line 51: if self.active_workers < self.max_workers
SlotFree == active_workers < max_workers

\* _dispatcher, lines 49-54: under the lock, reserve a slot when one is free;
\* otherwise sleep 0.5 s and look again (no change of state)
dispatcher_reserve ==
    /\ dispatcher.pc = "slot"
    /\ SlotFree
    /\ active_workers' = active_workers + 1
    /\ dispatcher' = [dispatcher EXCEPT !.pc = "start"]
    /\ UNCHANGED <<job_queue, running, worker, submitted, launch_order>>
    /\ UNCHANGED unlaunched_at_shutdown
    /\ UNCHANGED <<jobVars, pipeVars, normVars, raceVars>>

\* _dispatcher, lines 57-62: worker_thread.start(); the thread runs _execute_job
dispatcher_start ==
    /\ dispatcher.pc = "start"
    /\ worker' = [worker EXCEPT ![dispatcher.job_data] = "running"]
    /\ launch_order' = Append(launch_order, dispatcher.job_data)
    /\ dispatcher' = [pc |-> "loop", job_data |-> 0]
    /\ UNCHANGED <<job_queue, active_workers, running, submitted>>
    /\ UNCHANGED unlaunched_at_shutdown
    /\ UNCHANGED <<jobVars, pipeVars, normVars, raceVars>>

\* _execute_job, line 82: job_func returns
job_returns(j) ==
    /\ worker[j] = "running"
    /\ worker' = [worker EXCEPT ![j] = "returned"]
    /\ UNCHANGED <<job_queue, active_workers, running, dispatcher, submitted, launch_order>>
    /\ UNCHANGED unlaunched_at_shutdown
    /\ UNCHANGED <<jobVars, pipeVars, normVars, raceVars>>

\* _execute_job, lines 82-84: job_func raises; the except clause logs it
job_raises(j) ==
    /\ worker[j] = "running"
    /\ worker' = [worker EXCEPT ![j] = "raised"]
    /\ UNCHANGED <<job_queue, active_workers, running, dispatcher, submitted, launch_order>>
    /\ UNCHANGED unlaunched_at_shutdown
    /\ UNCHANGED <<jobVars, pipeVars, normVars, raceVars>>

\* a release that runs only after a normal return (no finally clause)
ReleasesAfterReturnOnly(w) == w = "returned"

\* _execute_job, lines 85-87: the finally clause runs after a return and after
\* a caught exception alike
Releases(w) == w \in {"returned", "raised"}

\* _execute_job, lines 85-88: under the lock, give the slot back; the thread ends
execute_job_finally(j) ==
    /\ worker[j] \in {"returned", "raised"}
    /\ active_workers' = IF Releases(worker[j]) THEN active_workers - 1 ELSE active_workers
    /\ worker' = [worker EXCEPT ![j] = IF worker[j] = "raised" THEN "crashed" ELSE "done"]
    /\ UNCHANGED <<job_queue, running, dispatcher, submitted, launch_order>>
    /\ UNCHANGED unlaunched_at_shutdown
    /\ UNCHANGED <<jobVars, pipeVars, normVars, raceVars>>

\* shutdown: self.running = False; the join (5 s at most) changes no state
shutdown ==
    /\ running
    /\ running' = FALSE
    /\ unlaunched_at_shutdown' = {j \in JobIds : worker[j] \in {"queued", "claimed"}}
    /\ UNCHANGED <<job_queue, active_workers, dispatcher, worker, submitted, launch_order>>
    /\ UNCHANGED <<jobVars, pipeVars, normVars, raceVars>>

Next ==
    \/ submit_job
    \/ dispatcher_loop
    \/ dispatcher_get
    \/ dispatcher_reserve
    \/ dispatcher_start
    \/ \E j \in JobIds : job_returns(j)
    \/ \E j \in JobIds : job_raises(j)
    \/ \E j \in JobIds : execute_job_finally(j)
    \/ shutdown

----------------------------------------------------------------------------
(* The batch job and its record in the job store *)

\* width of the job's inner ThreadPoolExecutor (settings.csv_concurrent_workers,
\* 10 by default), kept small here
ConcurrentWorkers == 2

\* what the scrape pipeline does with a row's URL cell: "blank" is an empty or
\* missing cell; the others are the status of the result the pipeline returns.
\* The job functions treat a "no_contacts_found" result exactly as a "success"
\* result (they copy result.status), so "success" stands for both.
RowKinds == {"blank", "success", "error"}

Variants == {"csv", "linkedin"}

RowIds == 1..Len(rows)

\* no row_data yet
NoRowData == [index |-> 0, scrape_status |-> "", failed |-> FALSE]

\* the input tables: the header of the table and the URL column the job was
\* given; the second table has no such column
Tables ==
    { [columns |-> <<"website">>, website_column |-> "website"],
      [columns |-> <<"name", "url">>, website_column |-> "website"] }

\* nothing has happened yet in a job of n rows
NoHist(n) ==
    [invoked |-> [r \in 1..n |-> 0], raised |-> {}, origin |-> [r \in 1..n |-> 0],
     uploads |-> 0, read |-> FALSE]

\* the error messages of the job functions; an exception's text stands for
\* whatever str(e) is
DownloadFailed == <<"Failed to download CSV from storage">>

UploadFailed == <<"Failed to upload processed CSV to storage">>

ExceptionText == <<"str(e)">>

\* ', '.join(df.columns)
RECURSIVE JoinComma(_)
JoinComma(cols) ==
    IF Len(cols) <= 1 THEN cols ELSE <<Head(cols), ", ">> \o JoinComma(Tail(cols))

ColumnNotFound(column, cols) ==
    <<"Column '", column, "' not found in CSV. Available columns: ">> \o JoinComma(cols)

\* create_job: the record as inserted, status "queued"
create_job(total) ==
    [status |-> "queued", total_rows |-> total, processed_rows |-> 0,
     failed_rows |-> 0, completed_at |-> 0, error |-> <<>>, output_path |-> ""]

\* the state in which the job function is about to be launched by the pool:
\* start_csv_processing / start_linkedin_csv_processing counted the rows of
\* the table, created the record and submitted the job
JobInit ==
    /\ variant \in Variants
    /\ \E n \in 0..MaxRows : rows \in [1..n -> RowKinds]
    /\ rec = create_job(Len(rows))
    /\ jpc = "start"
    /\ task = [r \in 1..Len(rows) |-> "new"]
    /\ row_data = [r \in 1..Len(rows) |-> NoRowData]
    /\ scrape_status = [r \in 1..Len(rows) |-> ""]
    /\ cur = 0
    /\ job_data = rec
    /\ inc_failed = FALSE
    /\ inc_calls = [r \in 1..Len(rows) |-> 0]
    /\ failed_reported = 0
    /\ completed_writes = 0
    /\ fatal = FALSE
    /\ clock = 0
    /\ \E t \in Tables :
           /\ columns = t.columns
           /\ website_column = t.website_column
    /\ hist = NoHist(Len(rows))

\* an update that does not reach the store
update_job_status_lost(r, status, error, output_path, now) == r

\* update_job_status: only the fields given are written; a terminal status
\* also writes completed_at = now. The record's current state is not looked at.
update_job_status(r, status, error, output_path, now) ==
    [r EXCEPT !.status = status,
              !.completed_at = IF status \in {"completed", "failed"} THEN now ELSE @,
              !.error = IF error # <<>> THEN error ELSE @,
              !.output_path = IF output_path # "" THEN output_path ELSE @]

\* the job function ends with update_job_status(status="failed", error=...)
JobFails(error) ==
    /\ rec' = update_job_status(rec, "failed", error, "", clock + 1)
    /\ clock' = clock + 1
    /\ fatal' = TRUE
    /\ jpc' = "done"

\* lines 39-41 of both job functions: update_job_status(job_id, status="processing")
job_start ==
    /\ jpc = "start"
    /\ rec' = update_job_status(rec, "processing", <<>>, "", clock)
    /\ jpc' = "download"
    /\ UNCHANGED <<variant, columns, website_column, rows, row_data, task, scrape_status, cur, job_data, inc_failed,
                   inc_calls, failed_reported, completed_writes, fatal, clock, hist>>
    /\ UNCHANGED <<poolVars, pipeVars, normVars, raceVars>>

\* a check that finds every column
ColumnAlwaysPresent(column, cols) == TRUE

\* "if website_column not in df.columns" is false
ColumnPresent(column, cols) == column \in Range(cols)

\* csv_service.py 43-85, linkedin_csv_service.py 42-83: download the input,
\* read it, check the URL column, add the result columns. The download can
\* return nothing and the reading can raise. The linkedin job then submits
\* every row to the executor (lines 127-132) before it collects any result.
job_load ==
    /\ jpc = "download"
    /\ \E outcome \in {"read", "no_download", "exception"} :
        /\ hist' = [hist EXCEPT !.read = (outcome = "read")]
        /\ IF outcome = "read" /\ ColumnPresent(website_column, columns)
          THEN /\ jpc' = IF variant = "csv" THEN "next_row" ELSE "collect"
               /\ task' = IF variant = "csv" THEN task
                          ELSE [r \in RowIds |-> "pending"]
               /\ UNCHANGED <<rec, clock, fatal>>
          ELSE /\ JobFails(IF outcome = "no_download" THEN DownloadFailed
                           ELSE IF outcome = "exception" THEN ExceptionText
                           ELSE ColumnNotFound(website_column, columns))
               /\ UNCHANGED task
    /\ UNCHANGED <<variant, columns, website_column, rows, row_data, scrape_status, cur, job_data, inc_failed,
                   inc_calls, failed_reported, completed_writes>>
    /\ UNCHANGED <<poolVars, pipeVars, normVars, raceVars>>

\* the call of increment_job_progress(job_id, failed) for row r begins
CallIncrement(r, failed) ==
    /\ inc_failed' = failed
    /\ inc_calls' = [inc_calls EXCEPT ![r] = @ + 1]
    /\ failed_reported' = failed_reported + (IF failed THEN 1 ELSE 0)
    /\ jpc' = "inc_read"

\* a test that takes no cell as blank
IsBlankNever(cell) == FALSE

\* "pd.isna(website) or not str(website).strip()"
IsBlank(cell) == cell = "blank"

\* csv_service.py 88-96: the for loop takes the next row; a blank cell is
\* marked "skipped" and counted as failed without calling the pipeline
csv_next_row ==
    /\ variant = "csv"
    /\ jpc = "next_row"
    /\ IF cur = Len(rows)
       THEN /\ jpc' = "save"
            /\ UNCHANGED <<cur, task, scrape_status, inc_failed, inc_calls, failed_reported>>
       ELSE /\ cur' = cur + 1
            /\ IF IsBlank(rows[cur + 1])
               THEN /\ scrape_status' = [scrape_status EXCEPT ![cur + 1] = "skipped"]
                    /\ task' = [task EXCEPT ![cur + 1] = "counting"]
                    /\ CallIncrement(cur + 1, TRUE)
               ELSE /\ task' = [task EXCEPT ![cur + 1] = "running"]
                    /\ jpc' = "scrape"
                    /\ UNCHANGED <<scrape_status, inc_failed, inc_calls, failed_reported>>
    /\ UNCHANGED <<variant, columns, website_column, rec, rows, row_data, job_data, completed_writes, fatal, clock,
                   hist>>
    /\ UNCHANGED <<poolVars, pipeVars, normVars, raceVars>>

\* a handler that records the error and forgets the increment
HandlerSkipsIncrement == FALSE

\* csv_service.py 144, linkedin_csv_service.py 172: the except clause of a row
\* calls increment_job_progress(job_id, failed=True)
HandlerIncrements == TRUE

\* a handler that leaves the row's status as it is
HandlerLeavesStatus(status) == status

\* df.at[index, "scrape_status"] = "error"
HandlerStatus(status) == "error"

\* the except clause of the row's try block: the row is marked "error"
RowExcept(r) ==
    /\ scrape_status' = [scrape_status EXCEPT ![r] = HandlerStatus(@)]
    /\ IF HandlerIncrements
       THEN /\ task' = [task EXCEPT ![r] = "counting"]
            /\ CallIncrement(r, TRUE)
       ELSE /\ task' = [task EXCEPT ![r] = "handled"]
            /\ jpc' = IF variant = "csv" THEN "next_row" ELSE "collect"
            /\ UNCHANGED <<inc_failed, inc_calls, failed_reported>>

\* csv_service.py 136, linkedin_csv_service.py 109: a row for which the
\* pipeline returned a result is reported with failed=False, whatever the
\* result's status
FailedArg(status) == FALSE

\* csv_service.py 98-144: the try block of a row. Either scrape_website and
\* the storing of its result go through and the row is reported with
\* failed=False, or something in it raises and the except clause runs.
\* Nothing after the increment of line 136 can raise.
csv_scrape ==
    /\ variant = "csv"
    /\ jpc = "scrape"
    /\ \E raised \in BOOLEAN :
        /\ IF raised
           THEN RowExcept(cur)
           ELSE /\ scrape_status' = [scrape_status EXCEPT ![cur] = rows[cur]]
                /\ task' = [task EXCEPT ![cur] = "counting"]
                /\ CallIncrement(cur, FailedArg(rows[cur]))
        /\ hist' = [hist EXCEPT !.invoked[cur] = @ + 1,
                                !.raised = IF raised THEN @ \cup {cur} ELSE @,
                                !.origin[cur] = cur]
    /\ UNCHANGED <<variant, columns, website_column, rec, rows, row_data, cur, job_data, completed_writes, fatal, clock>>
    /\ UNCHANGED <<poolVars, pipeVars, normVars, raceVars>>

\* a read that returns the copy of the record an earlier call fetched
StaleJobStatus(stored, earlier) == earlier

\* get_job_status: the record as it is in the store now
get_job_status(stored, earlier) == stored

\* increment_job_progress, line 265: job_data = get_job_status(job_id)
inc_read ==
    /\ jpc = "inc_read"
    /\ job_data' = get_job_status(rec, job_data)
    /\ jpc' = "inc_write"
    /\ UNCHANGED <<variant, columns, website_column, rec, rows, row_data, task, scrape_status, cur, inc_failed,
                   inc_calls, failed_reported, completed_writes, fatal, clock, hist>>
    /\ UNCHANGED <<poolVars, pipeVars, normVars, raceVars>>

\* an increment that counts a failed row in failed_rows only
CountersFailedOnly(snapshot, failed) ==
    [processed_rows |-> snapshot.processed_rows + (IF failed THEN 0 ELSE 1),
     failed_rows |-> snapshot.failed_rows + (IF failed THEN 1 ELSE 0)]

\* increment_job_progress, lines 269-275: the new counters, from the snapshot
IncrementedCounters(snapshot, failed) ==
    [processed_rows |-> snapshot.processed_rows + 1,
     failed_rows |-> snapshot.failed_rows + (IF failed THEN 1 ELSE 0)]

\* increment_job_progress, line 278: if processed_rows >= job_data["total_rows"]
AutoCompletes(processed, snapshot) == processed >= snapshot.total_rows

\* increment_job_progress, lines 272-282: the update written to the record
inc_write ==
    /\ jpc = "inc_write"
    /\ LET c == IncrementedCounters(job_data, inc_failed)
           done == AutoCompletes(c.processed_rows, job_data)
       IN /\ rec' = [rec EXCEPT !.processed_rows = c.processed_rows,
                                !.failed_rows = c.failed_rows,
                                !.status = IF done THEN "completed" ELSE @,
                                !.completed_at = IF done THEN clock + 1 ELSE @]
          /\ clock' = IF done THEN clock + 1 ELSE clock
          /\ completed_writes' = completed_writes + (IF done THEN 1 ELSE 0)
    /\ task' = [task EXCEPT ![cur] = "handled"]
    /\ jpc' = IF variant = "csv" THEN "next_row" ELSE "collect"
    /\ UNCHANGED <<variant, columns, website_column, rows, row_data, scrape_status, cur, job_data, inc_failed,
                   inc_calls, failed_reported, fatal, hist>>
    /\ UNCHANGED <<poolVars, pipeVars, normVars, raceVars>>

\* an executor that starts a thread for every row
ThreadAlwaysFree(busy) == TRUE

\* ThreadPoolExecutor(max_workers=concurrent_workers) has a thread that is
\* not running a row
ThreadFree(busy) == busy < ConcurrentWorkers

\* a free executor thread takes a submitted row
task_start(r) ==
    /\ variant = "linkedin"
    /\ task[r] = "pending"
    /\ ThreadFree(Cardinality({x \in RowIds : task[x] = "running"}))
    /\ task' = [task EXCEPT ![r] = "running"]
    /\ UNCHANGED <<variant, columns, website_column, rec, jpc, rows, row_data, scrape_status, cur, job_data, inc_failed,
                   inc_calls, failed_reported, completed_writes, fatal, clock, hist>>
    /\ UNCHANGED <<poolVars, pipeVars, normVars, raceVars>>

\* linkedin_csv_service.py 85-124, process_single_row: the executor thread
\* computes the row's row_data and the future completes. row_data is
\* [index, scrape_status, failed]: "skipped"/True for a blank cell, the
\* result's status/False when the pipeline returned, "error"/True when it
\* raised.
task_finish(r) ==
    /\ variant = "linkedin"
    /\ task[r] = "running"
    /\ IF IsBlank(rows[r])
       THEN /\ row_data' = [row_data EXCEPT ![r] =
                            [index |-> r, scrape_status |-> "skipped", failed |-> TRUE]]
            /\ UNCHANGED hist
       ELSE \E raised \in BOOLEAN :
            /\ row_data' = [row_data EXCEPT ![r] =
                            IF raised
                            THEN [index |-> r, scrape_status |-> "error", failed |-> TRUE]
                            ELSE [index |-> r, scrape_status |-> rows[r],
                                  failed |-> FailedArg(rows[r])]]
            /\ hist' = [hist EXCEPT !.invoked[r] = @ + 1,
                                    !.raised = IF raised THEN @ \cup {r} ELSE @]
    /\ task' = [task EXCEPT ![r] = "finished"]
    /\ UNCHANGED <<variant, columns, website_column, rec, jpc, rows, scrape_status, cur, job_data, inc_failed,
                   inc_calls, failed_reported, completed_writes, fatal, clock>>
    /\ UNCHANGED <<poolVars, pipeVars, normVars, raceVars>>

\* an output row chosen by the order of completion
OutputIndexByCompletion(data, nth) == nth

\* index = row_data["index"]: the row the result is written to
OutputIndex(data, nth) == data.index

\* linkedin_csv_service.py 135-172: the job's own thread takes a completed
\* future from as_completed, in whatever order they complete, writes its
\* row_data to row index and reports the row; if that raises, the except
\* clause marks the row "error" and reports it as failed. When no future is
\* left the with block ends.
linkedin_collect ==
    /\ variant = "linkedin"
    /\ jpc = "collect"
    /\ IF \A r \in RowIds : task[r] = "handled"
       THEN /\ jpc' = "save"
            /\ UNCHANGED <<task, scrape_status, cur, inc_failed, inc_calls, failed_reported,
                           hist>>
       ELSE \E r \in RowIds :
            /\ task[r] = "finished"
            /\ cur' = r
            /\ \E raised \in BOOLEAN :
                IF raised
                THEN /\ RowExcept(r)
                     /\ hist' = [hist EXCEPT !.raised = @ \cup {r}, !.origin[r] = r]
                ELSE LET index == OutputIndex(row_data[r],
                                              Cardinality({x \in RowIds : task[x] = "handled"}) + 1)
                     IN  /\ scrape_status' = [scrape_status EXCEPT
                                                 ![index] = row_data[r].scrape_status]
                         /\ hist' = [hist EXCEPT !.origin[index] = r]
                         /\ task' = [task EXCEPT ![r] = "counting"]
                         /\ CallIncrement(r, row_data[r].failed)
    /\ UNCHANGED <<variant, columns, website_column, rec, rows, row_data, job_data, completed_writes, fatal, clock>>
    /\ UNCHANGED <<poolVars, pipeVars, normVars, raceVars>>

\* csv_service.py 146-176, linkedin_csv_service.py 174-203: write the table,
\* upload it, and record the outcome: "completed" with the output path, or
\* "failed" when the upload returned nothing or something raised
job_save ==
    /\ jpc = "save"
    /\ \E outcome \in {"ok", "no_upload", "exception"} :
        IF outcome = "ok"
        THEN /\ rec' = update_job_status(rec, "completed", <<>>, "out", clock + 1)
             /\ clock' = clock + 1
             /\ completed_writes' = completed_writes + 1
             /\ hist' = [hist EXCEPT !.uploads = @ + 1]
             /\ jpc' = "done"
             /\ UNCHANGED fatal
        ELSE /\ JobFails(IF outcome = "no_upload" THEN UploadFailed ELSE ExceptionText)
             /\ UNCHANGED <<completed_writes, hist>>
    /\ UNCHANGED <<variant, columns, website_column, rows, row_data, task, scrape_status, cur, job_data, inc_failed,
                   inc_calls, failed_reported>>
    /\ UNCHANGED <<poolVars, pipeVars, normVars, raceVars>>

JobNext ==
    \/ job_start
    \/ job_load
    \/ csv_next_row
    \/ csv_scrape
    \/ inc_read
    \/ inc_write
    \/ \E r \in RowIds : task_start(r)
    \/ \E r \in RowIds : task_finish(r)
    \/ linkedin_collect
    \/ job_save

\* the pool specification leaves the job machine unlaunched
JobIdle ==
    /\ variant = "csv"
    /\ rec = create_job(0)
    /\ jpc = "unlaunched"
    /\ rows = <<>>
    /\ task = <<>>
    /\ row_data = <<>>
    /\ scrape_status = <<>>
    /\ cur = 0
    /\ job_data = rec
    /\ inc_failed = FALSE
    /\ inc_calls = <<>>
    /\ failed_reported = 0
    /\ completed_writes = 0
    /\ fatal = FALSE
    /\ clock = 0
    /\ columns = <<>>
    /\ website_column = ""
    /\ hist = NoHist(0)

----------------------------------------------------------------------------
(* The scrape pipeline: app/services/contact_service.py (scrape_website),  *)
(* app/services/linkedin_service.py (scrape_linkedin_only), the cache      *)
(* functions of app/core/database.py, app/services/ai_service.py and       *)
(* normalize_url of app/services/scraper_utils.py.                         *)
(*                                                                         *)
(* A text is a sequence of one-character strings.  A page is modelled by   *)
(* what the extractors return for it.  Redis always answers; an entry      *)
(* leaves the cache when its TTL runs out.                                 *)

MaxCalls == 3

UpperCase == <<"A", "B", "C", "D", "E", "F", "G", "H", "I", "J", "K", "L", "M",
               "N", "O", "P", "Q", "R", "S", "T", "U", "V", "W", "X", "Y", "Z">>

LowerCase == <<"a", "b", "c", "d", "e", "f", "g", "h", "i", "j", "k", "l", "m",
               "n", "o", "p", "q", "r", "s", "t", "u", "v", "w", "x", "y", "z">>

\* str.lower() on one character
lower_char(ch) ==
    IF \E i \in 1..Len(UpperCase) : UpperCase[i] = ch
    THEN LowerCase[CHOOSE i \in 1..Len(UpperCase) : UpperCase[i] = ch]
    ELSE ch

\* str.lower()
lower(s) == [i \in 1..Len(s) |-> lower_char(s[i])]

\* str.startswith(): an exact, case-sensitive comparison
startswith(s, prefix) ==
    /\ Len(s) >= Len(prefix)
    /\ SubSeq(s, 1, Len(prefix)) = prefix

Whitespace == {" "}

RECURSIVE lstrip(_, _)
lstrip(s, chars) ==
    IF s # <<>> /\ Head(s) \in chars THEN lstrip(Tail(s), chars) ELSE s

RECURSIVE rstrip(_, _)
rstrip(s, chars) ==
    IF s # <<>> /\ s[Len(s)] \in chars THEN rstrip(SubSeq(s, 1, Len(s) - 1), chars) ELSE s

\* str.strip()
strip(s) == rstrip(lstrip(s, Whitespace), Whitespace)

\* index of the first character of s, from position from on, that is in chars;
\* Len(s) + 1 if there is none
FirstOf(s, from, chars) ==
    IF \E i \in from..Len(s) : s[i] \in chars
    THEN CHOOSE i \in from..Len(s) : s[i] \in chars /\ \A k \in from..(i - 1) : s[k] \notin chars
    ELSE Len(s) + 1

http_prefix == <<"h", "t", "t", "p", ":", "/", "/">>

https_prefix == <<"h", "t", "t", "p", "s", ":", "/", "/">>

\* urllib.parse.urlparse on a text that starts with "http://": the netloc
\* runs up to the first "/", "?" or "#", the path up to the first "?" or "#"
urlparse(url) ==
    LET netloc_end == FirstOf(url, Len(http_prefix) + 1, {"/", "?", "#"})
        path_end == FirstOf(url, netloc_end, {"?", "#"})
    IN  [scheme |-> <<"h", "t", "t", "p">>,
         netloc |-> SubSeq(url, Len(http_prefix) + 1, netloc_end - 1),
         path |-> SubSeq(url, netloc_end, path_end - 1)]

\* a normalizer that accepts every text
NetlocNeverMissing(parsed) == FALSE

\* the test that makes normalize_url raise ValueError
NetlocMissing(parsed) == parsed.netloc = <<>>

www_prefix == <<"w", "w", "w", ".">>

\* normalize_url: ok is FALSE where the code raises ValueError
normalize_url(url0) ==
    LET url1 == strip(url0)
        url2 == IF startswith(url1, https_prefix)
                THEN http_prefix \o SubSeq(url1, Len(https_prefix) + 1, Len(url1))
                ELSE IF ~startswith(url1, http_prefix)
                     THEN http_prefix \o url1
                     ELSE url1
        parsed == urlparse(url2)
        netloc1 == lower(parsed.netloc)
        netloc2 == IF startswith(netloc1, www_prefix)
                   THEN SubSeq(netloc1, Len(www_prefix) + 1, Len(netloc1))
                   ELSE netloc1
    IN  IF NetlocMissing(parsed)
        THEN [ok |-> FALSE, url |-> url2]
        ELSE [ok |-> TRUE,
              url |-> rstrip(parsed.scheme \o <<":", "/", "/">> \o netloc2 \o parsed.path, {"/"})]

\* the website arguments the pipeline is called with:
\* "a.c", "https://www.A.c/", "", " /p" and "https://"
RawInputs ==
    { <<"a", ".", "c">>,
      <<"h", "t", "t", "p", "s", ":", "/", "/", "w", "w", "w", ".", "A", ".", "c", "/">>,
      <<>>,
      <<" ", "/", "p">>,
      <<"h", "t", "t", "p", "s", ":", "/", "/">> }

\* those of them that name no host
HostlessInputs ==
    { <<>>,
      <<" ", "/", "p">>,
      <<"h", "t", "t", "p", "s", ":", "/", "/">> }

\* what the extractors return for a page without contacts
EmptyPage == [emails |-> <<>>, phones |-> <<>>, company |-> {}, personal |-> {}]

\* the pages a site can serve, each given by what extract_emails,
\* extract_phones and extract_linkedin_urls return for it
Pages ==
    { EmptyPage,
      [emails |-> <<"e1">>, phones |-> <<"p1">>, company |-> {}, personal |-> {}],
      [emails |-> <<>>, phones |-> <<>>, company |-> {"c1"}, personal |-> {"l1"}],
      [emails |-> <<"e2">>, phones |-> <<>>, company |-> {"c1"}, personal |-> {}] }

\* what fetch_page returns: the text of a page, an empty text, or None
\* (timeout, connection error, non-2xx status)
FetchOutcomes ==
    {[kind |-> "page", page |-> p] : p \in Pages} \cup {[kind |-> "empty_text"], [kind |-> "None"]}

\* a test that takes every fetch as successful
NoHtmlNever(html) == FALSE

\* "if not html": None and the empty text count as a failed fetch
NoHtml(html) == html.kind # "page"

extract(html) == IF html.kind = "page" THEN html.page ELSE EmptyPage

\* scrape_linkedin_only extracts the LinkedIn URLs only
extract_linkedin_only(html) ==
    [EmptyPage EXCEPT !.company = extract(html).company, !.personal = extract(html).personal]

contact_prefix == <<"c", "o", "n", "t", "a", "c", "t", ":">>

linkedin_prefix == <<"l", "i", "n", "k", "e", "d", "i", "n", ":">>

\* keys that put both pipelines in the "contact:" namespace
CacheKeyShared(p, site) == contact_prefix \o site

\* the Redis key of a site in the namespace of the pipeline p
CacheKey(p, site) == IF p = "full" THEN contact_prefix \o site ELSE linkedin_prefix \o site

\* redis_client.setex(key, cache_ttl, json.dumps(doc))
setex(store, key, doc) ==
    [k \in DOMAIN store \cup {key} |-> IF k = key THEN doc ELSE store[k]]

\* the entry leaves the store
Expired(store, key) == [k \in DOMAIN store \ {key} |-> store[k]]

\* the document save_contact_to_cache stores
ContactDoc(site, emails, phones, company, personal) ==
    [website |-> site, emails |-> emails, phones |-> phones,
     linkedin_urls |-> [company |-> company, personal |-> personal]]

\* the document scrape_linkedin_only stores
LinkedInDoc(company, personal) ==
    [company_linkedin |-> company, personal_linkedin |-> personal]

\* an Optional[str]
None == [is_none |-> TRUE, url |-> <<>>]

Some(url) == [is_none |-> FALSE, url |-> url]

NoResult == [kind |-> "none"]

ContactInfo(site, emails, phones, company, personal, status) ==
    [kind |-> "ContactInfo", website |-> site, emails |-> emails, phones |-> phones,
     linkedin_urls |-> [company |-> company, personal |-> personal], status |-> status]

ContactErrorResponse(site, error) ==
    [kind |-> "ContactErrorResponse", website |-> site, error |-> error, status |-> "error"]

LinkedInOnlyResponse(site, company, personal, status) ==
    [kind |-> "LinkedInOnlyResponse", website |-> site, company_linkedin |-> company,
     personal_linkedin |-> personal, status |-> status]

LinkedInErrorResponse(site, error) ==
    [kind |-> "LinkedInErrorResponse", website |-> site, error |-> error, status |-> "error"]

ErrorResponse(p, site, error) ==
    IF p = "full" THEN ContactErrorResponse(site, error) ELSE LinkedInErrorResponse(site, error)

\* the status written into a cached document's result: the document itself
\* has no status field, so cached.get("status", "success") is "success"
CachedStatus(doc) == "success"

\* the result built from a cached document
FromCache(p, site, doc) ==
    IF p = "full"
    THEN ContactInfo(doc.website, doc.emails, doc.phones, doc.linkedin_urls.company,
                     doc.linkedin_urls.personal, CachedStatus(doc))
    ELSE LinkedInOnlyResponse(site, doc.company_linkedin, doc.personal_linkedin, "success")

NoTrace ==
    [hit |-> FALSE, home |-> "none", find |-> "none", contact |-> "none",
     c_found |-> EmptyPage, validate |-> "none"]

PipeInit ==
    /\ pipeline = "full"
    /\ raw = <<>>
    /\ validate_linkedin = FALSE
    /\ skip_contact_page = FALSE
    /\ ppc = "idle"
    /\ website = <<>>
    /\ cache = <<>>
    /\ written_status = <<>>
    /\ written_fallback = {}
    /\ home = EmptyPage
    /\ found = EmptyPage
    /\ contact_page = None
    /\ fetched = <<>>
    /\ ai_calls = <<>>
    /\ cache_ops = <<>>
    /\ result = NoResult
    /\ trace = NoTrace
    /\ calls = 0

\* a caller invokes scrape_website or scrape_linkedin_only
pipe_call ==
    /\ ppc = "idle"
    /\ calls < MaxCalls
    /\ \E p \in {"full", "linkedin"}, u \in RawInputs, vl \in BOOLEAN, skip \in BOOLEAN :
           /\ (p = "linkedin") => (~vl /\ ~skip)
           /\ pipeline' = p
           /\ raw' = u
           /\ validate_linkedin' = vl
           /\ skip_contact_page' = skip
    /\ ppc' = "normalize"
    /\ website' = raw'
    /\ calls' = calls + 1
    /\ UNCHANGED <<cache, written_status, written_fallback, home, found, contact_page, fetched, ai_calls,
                   cache_ops, result, trace>>
    /\ UNCHANGED <<poolVars, jobVars, normVars, raceVars>>

\* website = normalize_url(website); ValueError returns the error response
pipe_normalize ==
    /\ ppc = "normalize"
    /\ LET n == normalize_url(website)
       IN  IF n.ok
           THEN /\ website' = n.url
                /\ ppc' = "cache_check"
                /\ UNCHANGED result
           ELSE /\ result' = ErrorResponse(pipeline, website, "Invalid URL")
                /\ ppc' = "returned"
                /\ UNCHANGED website
    /\ UNCHANGED <<pipeline, raw, validate_linkedin, skip_contact_page, cache, written_status, written_fallback,
                   home, found, contact_page, fetched, ai_calls, cache_ops, trace, calls>>
    /\ UNCHANGED <<poolVars, jobVars, normVars, raceVars>>

\* get_contact_from_cache(website) / redis_client.get(cache_key)
pipe_cache_check ==
    /\ ppc = "cache_check"
    /\ LET key == CacheKey(pipeline, website)
       IN  /\ cache_ops' = Append(cache_ops, <<"get", key>>)
           /\ IF key \in DOMAIN cache
              THEN /\ result' = FromCache(pipeline, website, cache[key])
                   /\ trace' = [trace EXCEPT !.hit = TRUE]
                   /\ ppc' = "returned"
              ELSE /\ ppc' = "fetch_homepage"
                   /\ UNCHANGED <<result, trace>>
    /\ UNCHANGED <<pipeline, raw, validate_linkedin, skip_contact_page, website, cache,
                   written_status, written_fallback, home, found, contact_page, fetched, ai_calls, calls>>
    /\ UNCHANGED <<poolVars, jobVars, normVars, raceVars>>

\* a pipeline that fetches the homepage again when the fetch failed
RetryFailedFetch == "fetch_homepage"

\* "raise Exception("Failed to fetch homepage")" is caught by the except
\* clause of scrape_website, which returns the error response
AfterFailedFetch == "returned"

\* a pipeline that looks for the contact page whatever the flag says
SkipsNever(skip) == FALSE

\* "if not skip_contact_page" is false
SkipsContactPage(skip) == skip

\* html = fetch_page(website) and the extraction from the homepage
pipe_fetch_homepage ==
    /\ ppc = "fetch_homepage"
    /\ fetched' = Append(fetched, website)
    /\ \E html \in FetchOutcomes :
           IF NoHtml(html)
           THEN /\ result' = ErrorResponse(pipeline, website, "Failed to fetch homepage")
                /\ trace' = [trace EXCEPT !.home = "failed"]
                /\ ppc' = AfterFailedFetch
                /\ UNCHANGED <<home, found>>
           ELSE /\ found' = IF pipeline = "full" THEN extract(html) ELSE extract_linkedin_only(html)
                /\ home' = found'
                /\ trace' = [trace EXCEPT !.home = IF html.kind = "page" THEN "ok" ELSE "failed"]
                /\ ppc' = IF pipeline = "full" /\ ~SkipsContactPage(skip_contact_page)
                          THEN "find_contact_page"
                          ELSE "empty_check"
                /\ UNCHANGED result
    /\ UNCHANGED <<pipeline, raw, validate_linkedin, skip_contact_page, website, cache,
                   written_status, written_fallback, contact_page, ai_calls, cache_ops, calls>>
    /\ UNCHANGED <<poolVars, jobVars, normVars, raceVars>>

\* parsed JSON values and the fields of a JSON object
JNull == [type |-> "null"]

JArray == [type |-> "array"]

Missing == [t |-> "missing"]

NullField == [t |-> "null"]

NumberField == [t |-> "number"]

TextField(s) == [t |-> "string", v |-> s]

ListField(l) == [t |-> "list", v |-> l]

DictField(company, personal) == [t |-> "dict", company |-> company, personal |-> personal]

\* dict.get(key, default)
get(field, default) == IF field.t = "missing" THEN default ELSE field

\* the answers of the chat completion to the contact-page question: the call
\* raises (error, timeout), the text is not JSON, or it parses to a value.
\* The texts are "", "null", "Null", the base URL itself, "/c" and
\* "http://x.y/c".
FindAnswers(base_url) ==
    {[kind |-> "raise"], [kind |-> "unparsable"],
     [kind |-> "parsed", value |-> JNull],
     [kind |-> "parsed", value |-> JArray]}
    \cup {[kind |-> "parsed", value |-> [type |-> "object", most_likely_contact_page |-> f]] :
            f \in {Missing, NullField, NumberField}
                  \cup {TextField(s) : s \in {<<>>, <<"n", "u", "l", "l">>, <<"N", "u", "l", "l">>,
                                              base_url, <<"/", "c">>,
                                              <<"h", "t", "t", "p", ":", "/", "/", "x", ".", "y", "/", "c">>}}}

\* index of the last "/" of s, 0 if there is none
LastSlash(s) ==
    IF \E i \in 1..Len(s) : s[i] = "/"
    THEN CHOOSE i \in 1..Len(s) : s[i] = "/" /\ \A k \in (i + 1)..Len(s) : s[k] # "/"
    ELSE 0

\* urllib.parse.urljoin(base, ref) for a base that starts with "http://" and
\* a non-empty ref without query, fragment or dot segments: an absolute ref
\* replaces the base, a ref that starts with "/" replaces the base's path,
\* any other ref replaces the last segment of the base's path
urljoin(base, ref) ==
    LET b == urlparse(base)
        origin == b.scheme \o <<":", "/", "/">> \o b.netloc
    IN  IF startswith(ref, http_prefix) \/ startswith(ref, https_prefix)
        THEN ref
        ELSE IF Head(ref) = "/"
             THEN origin \o ref
             ELSE IF b.path = <<>>
                  THEN origin \o <<"/">> \o ref
                  ELSE origin \o SubSeq(b.path, 1, LastSlash(b.path)) \o ref

\* find_contact_page: every exception inside the try block gives None
find_contact_page(base_url, answer) ==
    IF answer.kind # "parsed"
    THEN None
    ELSE IF answer.value.type # "object"
         THEN None
         ELSE LET page == get(answer.value.most_likely_contact_page, NullField)
              IN  IF page.t # "string"
                  THEN None
                  ELSE IF page.v # <<>> /\ lower(page.v) # <<"n", "u", "l", "l">>
                       THEN Some(urljoin(base_url, page.v))
                       ELSE None

\* how the answer to the contact-page question is to be classed
FindKind(base_url, answer) ==
    IF answer.kind # "parsed" THEN answer.kind
    ELSE IF answer.value.type # "object" THEN "malformed"
    ELSE IF answer.value.most_likely_contact_page.t \in {"missing", "number"} THEN "malformed"
    ELSE IF find_contact_page(base_url, answer) = None THEN "no_page"
    ELSE IF find_contact_page(base_url, answer).url = base_url THEN "homepage"
    ELSE "url"

\* a test without the comparison with the homepage
FetchesAnyContactPage(page, site) ==
    /\ ~page.is_none
    /\ page.url # <<>>

\* "if contact_page and contact_page != website"
FetchesContactPage(page, site) ==
    /\ ~page.is_none
    /\ page.url # <<>>
    /\ page.url # site

\* contact_page = find_contact_page(website, links)
pipe_find_contact_page ==
    /\ ppc = "find_contact_page"
    /\ ai_calls' = Append(ai_calls, "find_contact_page")
    /\ \E answer \in FindAnswers(website) :
           /\ contact_page' = find_contact_page(website, answer)
           /\ trace' = [trace EXCEPT !.find = FindKind(website, answer)]
    /\ ppc' = IF FetchesContactPage(contact_page', website)
              THEN "fetch_contact_page"
              ELSE "empty_check"
    /\ UNCHANGED <<pipeline, raw, validate_linkedin, skip_contact_page, website, cache,
                   written_status, written_fallback, home, found, fetched, cache_ops, result, calls>>
    /\ UNCHANGED <<poolVars, jobVars, normVars, raceVars>>

\* a merge in which the contact page's values take the place of the homepage's
mergeReplacing(a, b) == b

\* emails += c_emails, phones += c_phones; the LinkedIn lists are extended
\* and deduplicated
merge(a, b) ==
    [emails |-> a.emails \o b.emails,
     phones |-> a.phones \o b.phones,
     company |-> a.company \cup b.company,
     personal |-> a.personal \cup b.personal]

\* c_html = fetch_page(contact_page) and the merge of what it holds
pipe_fetch_contact_page ==
    /\ ppc = "fetch_contact_page"
    /\ fetched' = Append(fetched, contact_page.url)
    /\ \E c_html \in FetchOutcomes :
           IF c_html.kind = "page"
           THEN /\ found' = merge(found, extract(c_html))
                /\ trace' = [trace EXCEPT !.contact = "ok", !.c_found = extract(c_html)]
           ELSE /\ trace' = [trace EXCEPT !.contact = "failed"]
                /\ UNCHANGED found
    /\ ppc' = "empty_check"
    /\ UNCHANGED <<pipeline, raw, validate_linkedin, skip_contact_page, website, cache,
                   written_status, written_fallback, home, contact_page, ai_calls, cache_ops, result, calls>>
    /\ UNCHANGED <<poolVars, jobVars, normVars, raceVars>>

\* no emails, no phones and no LinkedIn URLs
IsEmpty(f) == f.emails = <<>> /\ f.phones = <<>> /\ f.company = {} /\ f.personal = {}

\* step 4 of both pipelines; scrape_linkedin_only also ends here when it
\* found LinkedIn URLs (it has no validation step)
pipe_empty_check ==
    /\ ppc = "empty_check"
    /\ LET key == CacheKey(pipeline, website)
           status == IF IsEmpty(found) THEN "no_contacts_found" ELSE "success"
       IN  IF pipeline = "full" /\ ~IsEmpty(found)
           THEN /\ ppc' = "validate"
                /\ UNCHANGED <<cache, written_status, written_fallback, cache_ops, result>>
           ELSE /\ result' = IF pipeline = "full"
                             THEN ContactInfo(website, <<>>, <<>>, {}, {}, status)
                             ELSE LinkedInOnlyResponse(website, found.company, found.personal,
                                                       status)
                /\ cache' = setex(cache, key,
                                  IF pipeline = "full"
                                  THEN ContactDoc(website, <<>>, <<>>, {}, {})
                                  ELSE LinkedInDoc(found.company, found.personal))
                /\ written_status' = setex(written_status, key, status)
                /\ written_fallback' = written_fallback \ {key}
                /\ cache_ops' = Append(cache_ops, <<"setex", key>>)
                /\ ppc' = "returned"
    /\ UNCHANGED <<pipeline, raw, validate_linkedin, skip_contact_page, website, home, found,
                   contact_page, fetched, ai_calls, trace, calls>>
    /\ UNCHANGED <<poolVars, jobVars, normVars, raceVars>>

\* the answers of the chat completion to the validation request: the call
\* raises (error, timeout), the text is not JSON, or it parses to a value;
\* a list the assistant returns keeps all the candidates or none
ValidateAnswers(f) ==
    {[kind |-> "raise"], [kind |-> "unparsable"],
     [kind |-> "parsed", value |-> JNull],
     [kind |-> "parsed", value |-> JArray]}
    \cup {[kind |-> "parsed",
           value |-> [type |-> "object", valid_email |-> e, valid_phones |-> p,
                      valid_linkedin_urls |-> l]] :
            e \in {Missing, NullField, ListField(<<>>), ListField(f.emails)},
            p \in {Missing, NullField, ListField(<<>>), ListField(f.phones)},
            l \in {Missing, NullField, DictField({}, {}), DictField(f.company, f.personal)}}

\* a fallback that leaves the LinkedIn URLs out
FallbackWithoutLinkedIn(f) ==
    [type |-> "object", valid_email |-> ListField(<<>>), valid_phones |-> ListField(<<>>),
     valid_linkedin_urls |-> Missing]

\* what validate_contacts returns from its except block
ValidationFallback(f) ==
    [type |-> "object", valid_email |-> ListField(<<>>), valid_phones |-> ListField(<<>>),
     valid_linkedin_urls |-> DictField(f.company, f.personal)]

\* validate_contacts: linkedin_urls is a dictionary with two keys and so
\* always true; assigning a key to a parsed value that is not an object
\* raises inside the try block
validate_contacts(f, with_linkedin, answer) ==
    IF answer.kind # "parsed"
    THEN ValidationFallback(f)
    ELSE IF ~with_linkedin
         THEN IF answer.value.type = "object"
              THEN [answer.value EXCEPT !.valid_linkedin_urls = DictField(f.company, f.personal)]
              ELSE ValidationFallback(f)
         ELSE answer.value

\* validate_contacts returned from its except block
FellBack(with_linkedin, answer) ==
    \/ answer.kind # "parsed"
    \/ ~with_linkedin /\ answer.value.type # "object"

\* how the answer to the validation request is to be classed
ValidateKind(answer) ==
    IF answer.kind # "parsed" THEN answer.kind
    ELSE IF answer.value.type # "object" THEN "not_object"
    ELSE IF \/ answer.value.valid_email.t = "null"
            \/ answer.value.valid_phones.t = "null"
            \/ answer.value.valid_linkedin_urls.t = "null"
         THEN "bad_fields"
         ELSE "ok"

\* steps 5 and 6 of scrape_website: validation.get(...) raises on a value
\* that is not an object, valid_linkedin.get(...) and len(...) raise on null
pipe_validate ==
    /\ ppc = "validate"
    /\ ai_calls' = Append(ai_calls, "validate_contacts")
    /\ \E answer \in ValidateAnswers(found) :
           LET validation == validate_contacts(found, validate_linkedin, answer)
               key == CacheKey(pipeline, website)
           IN  /\ trace' = [trace EXCEPT !.validate = ValidateKind(answer)]
               /\ IF validation.type # "object"
                  THEN /\ result' = ErrorResponse(pipeline, website, "AttributeError")
                       /\ UNCHANGED <<cache, written_status, written_fallback, cache_ops>>
                  ELSE LET valid_emails == get(validation.valid_email, ListField(<<>>))
                           valid_phones == get(validation.valid_phones, ListField(<<>>))
                           valid_linkedin == get(validation.valid_linkedin_urls,
                                                 DictField({}, {}))
                       IN  IF valid_linkedin.t # "dict"
                           THEN /\ result' = ErrorResponse(pipeline, website, "AttributeError")
                                /\ UNCHANGED <<cache, written_status, written_fallback, cache_ops>>
                           ELSE IF valid_emails.t # "list" \/ valid_phones.t # "list"
                           THEN /\ result' = ErrorResponse(pipeline, website, "TypeError")
                                /\ UNCHANGED <<cache, written_status, written_fallback, cache_ops>>
                           ELSE /\ cache' = setex(cache, key,
                                                  ContactDoc(website, valid_emails.v,
                                                             valid_phones.v,
                                                             valid_linkedin.company,
                                                             valid_linkedin.personal))
                                /\ written_status' = setex(written_status, key, "success")
                                /\ written_fallback' =
                                      IF FellBack(validate_linkedin, answer)
                                      THEN written_fallback \cup {key}
                                      ELSE written_fallback \ {key}
                                /\ cache_ops' = Append(cache_ops, <<"setex", key>>)
                                /\ result' = ContactInfo(website, valid_emails.v, valid_phones.v,
                                                         valid_linkedin.company,
                                                         valid_linkedin.personal, "success")
    /\ ppc' = "returned"
    /\ UNCHANGED <<pipeline, raw, validate_linkedin, skip_contact_page, website, home, found,
                   contact_page, fetched, calls>>
    /\ UNCHANGED <<poolVars, jobVars, normVars, raceVars>>

\* the caller has the result and the locals of the call are gone
pipe_return ==
    /\ ppc = "returned"
    /\ ppc' = "idle"
    /\ pipeline' = "full"
    /\ raw' = <<>>
    /\ validate_linkedin' = FALSE
    /\ skip_contact_page' = FALSE
    /\ website' = <<>>
    /\ home' = EmptyPage
    /\ found' = EmptyPage
    /\ contact_page' = None
    /\ fetched' = <<>>
    /\ ai_calls' = <<>>
    /\ cache_ops' = <<>>
    /\ result' = NoResult
    /\ trace' = NoTrace
    /\ UNCHANGED <<cache, written_status, written_fallback, calls>>
    /\ UNCHANGED <<poolVars, jobVars, normVars, raceVars>>

\* the TTL (cache_ttl) of an entry runs out.  The pipeline reads the cache
\* once, before it writes it, so an expiry during a call has the effect of
\* one between two calls
cache_expire ==
    /\ ppc = "idle"
    /\ \E key \in DOMAIN cache :
           /\ cache' = Expired(cache, key)
           /\ written_status' = Expired(written_status, key)
           /\ written_fallback' = written_fallback \ {key}
    /\ UNCHANGED <<pipeline, raw, validate_linkedin, skip_contact_page, ppc, website, home,
                   found, contact_page, fetched, ai_calls, cache_ops, result, trace, calls>>
    /\ UNCHANGED <<poolVars, jobVars, normVars, raceVars>>

PipeNext ==
    \/ pipe_call
    \/ pipe_normalize
    \/ pipe_cache_check
    \/ pipe_fetch_homepage
    \/ pipe_find_contact_page
    \/ pipe_fetch_contact_page
    \/ pipe_empty_check
    \/ pipe_validate
    \/ pipe_return
    \/ cache_expire

----------------------------------------------------------------------------
(* The contact job of csv_service.py with its rows' calls of scrape_website *)
(* spelled out: the job's thread runs the pipeline for the row at hand and *)
(* goes on with the row when the pipeline has returned.                    *)

\* the cells the job passes on: str(website).strip() of a cell that is not
\* blank
CellInputs == {u \in RawInputs : u # <<>> /\ strip(u) = u}

\* the kind of row a result makes: the job copies result.status, and a
\* "no_contacts_found" result is treated as a "success" result
RowKindOf(status) == IF status = "error" THEN "error" ELSE "success"

\* largest number of rows of the table of this job
MaxBatchRows == 2

\* a contact job over a short table that has the URL column
BatchInit ==
    /\ JobInit
    /\ variant = "csv"
    /\ Len(rows) <= MaxBatchRows
    /\ ColumnPresent(website_column, columns)

\* csv_service.py 100: result = scrape_website(str(website).strip()), with
\* the default validate_linkedin=False and skip_contact_page=False
batch_call ==
    /\ variant = "csv"
    /\ jpc = "scrape"
    /\ pipe_call
    /\ pipeline' = "full"
    /\ raw' \in CellInputs
    /\ ~validate_linkedin'
    /\ ~skip_contact_page'

\* csv_service.py 101-144: the rest of the row's try block, with the result
\* the pipeline returned
batch_scrape ==
    /\ ppc = "returned"
    /\ csv_scrape
    /\ cur \notin hist'.raised => rows[cur] = RowKindOf(result.status)

\* scrape_website's frame is gone when the row's try block is left
batch_return ==
    /\ jpc # "scrape"
    /\ pipe_return

\* the row is reported after its try block
batch_inc_read ==
    /\ ppc = "idle"
    /\ inc_read

BatchNext ==
    \/ job_start
    \/ job_load
    \/ csv_next_row
    \/ batch_call
    \/ pipe_normalize
    \/ pipe_cache_check
    \/ pipe_fetch_homepage
    \/ pipe_find_contact_page
    \/ pipe_fetch_contact_page
    \/ pipe_empty_check
    \/ pipe_validate
    \/ batch_scrape
    \/ batch_return
    \/ batch_inc_read
    \/ inc_write
    \/ job_save

----------------------------------------------------------------------------
(* Two calls of scrape_linkedin_only for the same site that overlap, as two *)
(* rows of one LinkedIn job in the job's executor (linkedin_csv_service.py   *)
(* 127-132) or rows of two jobs. They share the Redis cache and nothing     *)
(* else; neither takes a lock.                                              *)

Invocations == {1, 2}

\* the site both calls are for, as normalize_url returns it
RaceSite == normalize_url(<<"a", ".", "c">>).url

RaceKey == CacheKey("linkedin", RaceSite)

NoInvocation == [pc |-> "idle", hit |-> FALSE, home |-> "none", found |-> EmptyPage]

RaceInit == inv = [i \in Invocations |-> NoInvocation]

\* an executor thread calls scrape_linkedin_only(website)
race_call(i) ==
    /\ inv[i].pc = "idle"
    /\ inv' = [inv EXCEPT ![i].pc = "cache_check"]
    /\ UNCHANGED <<poolVars, jobVars, pipeVars, normVars>>

\* "cached = redis_client.get(cache_key)" followed by "if cached"
Cached(store, key) == key \in DOMAIN store

\* linkedin_service.py 40-53: the cache check; a hit returns
race_cache_check(i) ==
    /\ inv[i].pc = "cache_check"
    /\ inv' = IF Cached(cache, RaceKey)
              THEN [inv EXCEPT ![i].pc = "returned", ![i].hit = TRUE]
              ELSE [inv EXCEPT ![i].pc = "fetch_homepage"]
    /\ UNCHANGED <<poolVars, jobVars, pipeVars, normVars>>

\* linkedin_service.py 56-66: html = fetch_page(website) and the extraction
race_fetch_homepage(i) ==
    /\ inv[i].pc = "fetch_homepage"
    /\ \E html \in FetchOutcomes :
           inv' = IF NoHtml(html)
                  THEN [inv EXCEPT ![i].pc = "returned", ![i].home = "failed"]
                  ELSE [inv EXCEPT ![i].pc = "cache_write", ![i].home = "ok",
                                   ![i].found = extract_linkedin_only(html)]
    /\ UNCHANGED <<poolVars, jobVars, pipeVars, normVars>>

\* linkedin_service.py 78-118: the result, empty or not, is written to the
\* cache and returned
race_cache_write(i) ==
    /\ inv[i].pc = "cache_write"
    /\ cache' = setex(cache, RaceKey, LinkedInDoc(inv[i].found.company, inv[i].found.personal))
    /\ written_status' = setex(written_status, RaceKey,
                               IF IsEmpty(inv[i].found) THEN "no_contacts_found"
                               ELSE "success")
    /\ written_fallback' = written_fallback \ {RaceKey}
    /\ inv' = [inv EXCEPT ![i].pc = "returned"]
    /\ UNCHANGED <<pipeline, raw, validate_linkedin, skip_contact_page, ppc, website, home,
                   found, contact_page, fetched, ai_calls, cache_ops, result, trace, calls>>
    /\ UNCHANGED <<poolVars, jobVars, normVars>>

RaceNext ==
    \/ \E i \in Invocations : race_call(i)
    \/ \E i \in Invocations : race_cache_check(i)
    \/ \E i \in Invocations : race_fetch_homepage(i)
    \/ \E i \in Invocations : race_cache_write(i)

----------------------------------------------------------------------------
(* normalize_url of app/services/scraper_utils.py on its own: it is applied *)
(* to a raw text and to the plain spelling of the same site, and then once *)
(* more to its own result.                                                 *)

MaxLen == 4

Alphabet == {"a", "w", ".", "/", " "}

\* every text of at most MaxLen characters of the alphabet
ShortTexts == UNION {[1..n -> Alphabet] : n \in 0..MaxLen}

\* "HTTP://", "HTTPS://" and "Https://"
SchemeSpellings ==
    { <<>>, http_prefix, https_prefix,
      <<"H", "T", "T", "P", ":", "/", "/">>,
      <<"H", "T", "T", "P", "S", ":", "/", "/">>,
      <<"H", "t", "t", "p", "s", ":", "/", "/">> }

WwwSpellings == { <<>>, www_prefix, <<"W", "W", "W", ".">> }

\* the hosts and paths of the sites: "a.c", "a.c/p"
PlainSpellings == { <<"a", ".", "c">>, <<"a", ".", "c", "/", "p">> }

\* the spellings of a host: one letter in upper case, or all of them
HostSpellings(host) ==
    {host} \cup {[host EXCEPT ![1] = "A"]} \cup {[[host EXCEPT ![1] = "A"] EXCEPT ![3] = "C"]}

TrailingSlashes == { <<>>, <<"/">>, <<"/", "/">> }

\* the raw texts that differ from a plain spelling only in the scheme, a
\* leading "www.", the letter case of the host and trailing slashes
Spellings(plain) ==
    {scheme \o www \o host \o SubSeq(plain, 4, Len(plain)) \o slashes :
        scheme \in SchemeSpellings, www \in WwwSpellings,
        host \in HostSpellings(SubSeq(plain, 1, 3)), slashes \in TrailingSlashes}

NoNorm == [ok |-> FALSE, url |-> <<>>]

\* no text is being normalized
NormIdle ==
    /\ norm_pc = "idle"
    /\ norm_in = <<>>
    /\ norm_plain = <<>>
    /\ norm_out = NoNorm
    /\ norm_plain_out = NoNorm
    /\ norm_again = NoNorm

\* a raw text: a short text (its own plain spelling) or a spelling of a site
NormInit ==
    /\ norm_pc = "start"
    /\ \/ /\ norm_in \in ShortTexts
          /\ norm_plain = norm_in
       \/ /\ norm_plain \in PlainSpellings
          /\ norm_in \in Spellings(norm_plain)
    /\ norm_out = NoNorm
    /\ norm_plain_out = NoNorm
    /\ norm_again = NoNorm

\* normalize_url(url) for the raw text and for its plain spelling
norm_apply ==
    /\ norm_pc = "start"
    /\ norm_out' = normalize_url(norm_in)
    /\ norm_plain_out' = normalize_url(norm_plain)
    /\ norm_pc' = IF norm_out'.ok THEN "once" ELSE "rejected"
    /\ UNCHANGED <<norm_in, norm_plain, norm_again>>
    /\ UNCHANGED <<poolVars, jobVars, pipeVars, raceVars>>

\* normalize_url(normalize_url(url))
norm_reapply ==
    /\ norm_pc = "once"
    /\ norm_again' = normalize_url(norm_out.url)
    /\ norm_pc' = "twice"
    /\ UNCHANGED <<norm_in, norm_plain, norm_out, norm_plain_out>>
    /\ UNCHANGED <<poolVars, jobVars, pipeVars, raceVars>>

NormNext ==
    \/ norm_apply
    \/ norm_reapply

----------------------------------------------------------------------------
(* The specifications *)

Init == PoolInit /\ JobIdle /\ PipeInit /\ NormIdle /\ RaceInit

Spec == Init /\ [][Next]_vars

\* the pool with the scheduling the claim of progress rests on: the
\* dispatcher thread and the finally clause of a worker thread are run by the
\* interpreter whenever they can take a step, and a launched job function
\* ends, by returning or by raising. Nothing obliges callers to submit jobs
\* or to shut the pool down.
Fairness ==
    /\ WF_vars(dispatcher_loop)
    /\ WF_vars(dispatcher_get)
    /\ WF_vars(dispatcher_reserve)
    /\ WF_vars(dispatcher_start)
    /\ \A j \in JobIds : WF_vars(job_returns(j) \/ job_raises(j))
    /\ \A j \in JobIds : WF_vars(execute_job_finally(j))

SpecLive == Init /\ [][Next]_vars /\ Fairness

InitJob == PoolInit /\ JobInit /\ PipeInit /\ NormIdle /\ RaceInit

SpecJob == InitJob /\ [][JobNext]_vars

\* the job with the scheduling the claim of termination rests on: the job's
\* thread and the executor's threads go on whenever one of them can take a
\* step, every call they make returning
JobFairness == WF_vars(JobNext)

SpecJobLive == InitJob /\ [][JobNext]_vars /\ JobFairness

InitPipe == PoolInit /\ JobIdle /\ PipeInit /\ NormIdle /\ RaceInit

SpecPipe == InitPipe /\ [][PipeNext]_vars

InitNorm == PoolInit /\ JobIdle /\ PipeInit /\ NormInit /\ RaceInit

InitBatch == PoolInit /\ BatchInit /\ PipeInit /\ NormIdle /\ RaceInit

SpecBatch == InitBatch /\ [][BatchNext]_vars

SpecNorm == InitNorm /\ [][NormNext]_vars

InitRace == PoolInit /\ JobIdle /\ PipeInit /\ NormIdle /\ RaceInit

SpecRace == InitRace /\ [][RaceNext]_vars

----------------------------------------------------------------------------
(* Properties of the WorkerPool (specification Spec) *)

\* jobs whose worker thread has been started and has not ended
Executing == {j \in JobIds : worker[j] \in {"running", "returned", "raised"}}

\* C1: with max_workers = N and more than N jobs submitted, active_workers
\* never exceeds N, and never more than N jobs are launched and unfinished.
C1_OuterPoolBound ==
    /\ active_workers <= max_workers
    /\ Cardinality(Executing) <= max_workers

\* C1 witness: more jobs submitted than slots, every slot taken by a running
\* job, and the dispatcher holding the next job back
C1_Witness ==
    /\ submitted > max_workers
    /\ Cardinality({j \in JobIds : worker[j] = "running"}) = max_workers
    /\ dispatcher.pc = "slot"

\* C9: jobs are launched in the order of their submit_job calls (job ids
\* number the calls): the i-th launch is the i-th submitted job.
C9_FifoLaunch == \A i \in 1..Len(launch_order) : launch_order[i] = i

\* C9 witness: three jobs launched in order, the second finished while the
\* first still runs (completion is not in submission order)
C9_Witness ==
    /\ Len(launch_order) >= 3
    /\ worker[1] = "running"
    /\ worker[2] \in {"done", "crashed"}

\* C10: the step in which a job function raises changes nothing but that
\* job's own thread (dispatcher, running flag, queue, slots and every other
\* job are untouched), and a crashed job gives its slot back: whenever the
\* dispatcher waits for a slot while fewer than max_workers threads are
\* alive, a slot is free, so the jobs behind a crashed job are launched.
C10_CrashIsolated ==
    /\ [][\A j \in JobIds :
            (worker[j] = "running" /\ worker'[j] = "raised")
            => /\ dispatcher' = dispatcher
               /\ running' = running
               /\ job_queue' = job_queue
               /\ active_workers' = active_workers
               /\ \A k \in JobIds \ {j} : worker'[k] = worker[k]]_vars
    /\ []((dispatcher.pc = "slot" /\ Cardinality(Executing) < max_workers) => SlotFree)

\* C10 witness: the first two jobs crashed while holding both slots, and the
\* two jobs queued behind them are running
C10_Witness ==
    /\ worker[1] = "crashed"
    /\ worker[2] = "crashed"
    /\ worker[3] = "running"
    /\ worker[4] = "running"

\* a slot reserved by the dispatcher for a job whose thread is not started yet
Reserved == IF dispatcher.pc = "start" THEN 1 ELSE 0

\* C11: active_workers = the number of launched and unfinished jobs, in every
\* state.
C11_SlotsEqualExecuting == active_workers = Cardinality(Executing)

\* C11, amended: every job holds exactly one slot from its reservation to the
\* end of its thread: active_workers >= 0 and active_workers = the number of
\* launched and unfinished jobs, plus one while the dispatcher has reserved a
\* slot for a job it has not started yet; with no job executing and no slot
\* reserved, active_workers = 0.
C11_SlotAccounting ==
    /\ active_workers >= 0
    /\ active_workers = Cardinality(Executing) + Reserved
    /\ (Executing = {} /\ Reserved = 0) => active_workers = 0

\* C11 witness: one job crashed and gave its slot back, one is running, and
\* the dispatcher has reserved the other slot for a job not yet started
C11_Witness ==
    /\ \E j \in JobIds : worker[j] = "crashed"
    /\ \E j \in JobIds : worker[j] = "running"
    /\ dispatcher.pc = "start"
    /\ active_workers = 2

\* C12: a job that had not been launched when shutdown() was called is never
\* launched afterwards, whether it was in job_queue or in the dispatcher's
\* hands waiting for a slot.
C12_UnlaunchedStayDropped ==
    \A j \in unlaunched_at_shutdown : worker[j] \in {"queued", "claimed"}


\* C13: a job is in job_queue exactly from its submit_job to the moment the
\* dispatcher claims it, it is there once, and no job is launched twice.
C13_LaunchedAtMostOnce ==
    /\ \A i, k \in 1..Len(launch_order) : launch_order[i] = launch_order[k] => i = k
    /\ \A i, k \in 1..Len(job_queue) : job_queue[i] = job_queue[k] => i = k
    /\ \A j \in JobIds : worker[j] = "queued" <=> j \in Range(job_queue)
    /\ dispatcher.pc \in {"slot", "start"}
       => (worker[dispatcher.job_data] = "claimed" /\ dispatcher.job_data \notin Range(job_queue))
    /\ \A j \in Range(launch_order) : worker[j] \notin {"unsubmitted", "queued", "claimed"}

\* C13 witness: two jobs launched, a third claimed and waiting for a slot, a
\* fourth still in the queue
C13_Witness ==
    /\ Len(launch_order) = 2
    /\ dispatcher.pc = "slot"
    /\ job_queue # <<>>

\* the job's thread was started
Launched(j) == worker[j] \in {"running", "returned", "raised", "done", "crashed"}

\* C33: under SpecLive (the threads are scheduled and every launched job
\* function ends) a job that was put on the queue is launched in the end,
\* unless the pool is shut down before that.
C33_EveryJobLaunched ==
    \A j \in JobIds : (worker[j] = "queued") ~> (Launched(j) \/ ~running)

\* C33 witness: the third job waited for a slot behind two others, one of
\* which crashed, and was launched while the pool was running
C33_Witness ==
    /\ running
    /\ launch_order = <<1, 2, 3>>
    /\ worker[1] = "crashed"
    /\ worker[2] = "running"
    /\ worker[3] = "running"
    /\ job_queue = <<4>>

\* the jobs that were submitted and have not finished
Unfinished == {j \in JobIds : worker[j] \in {"queued", "claimed", "running", "returned", "raised"}}

\* C36 as stated: queued_jobs + active_workers is the number of submitted
\* jobs that have not finished.
C36_CountersCoverUnfinished ==
    Len(job_queue) + active_workers = Cardinality(Unfinished)

\* the job the dispatcher took from the queue and holds while it waits for
\* a slot
HeldWithoutSlot == IF dispatcher.pc = "slot" THEN 1 ELSE 0

\* C36 (amended): queued_jobs + active_workers, plus one while the
\* dispatcher holds a job for which it has not reserved a slot yet, is the
\* number of submitted jobs that have not finished.
C36_CountersAndHeldJob ==
    Len(job_queue) + active_workers + HeldWithoutSlot = Cardinality(Unfinished)

\* C36 witness: both slots are taken, the dispatcher holds the third job and
\* the fourth is on the queue
C36_Witness ==
    /\ active_workers = max_workers
    /\ dispatcher = [pc |-> "slot", job_data |-> 3]
    /\ job_queue = <<4>>
    /\ Cardinality(Unfinished) = 4

----------------------------------------------------------------------------
(* Properties of the batch job and its record (specification SpecJob) *)

Handled == {r \in RowIds : task[r] = "handled"}

Terminal == {"completed", "failed"}

\* C2: the increments of one job never overlap, so none is lost: outside an
\* increment processed_rows is the number of rows reported so far and
\* failed_rows the number reported as failed; once every row is reported,
\* processed_rows = N.
C2_NoLostIncrement ==
    /\ jpc \notin {"inc_read", "inc_write"}
       => /\ rec.processed_rows = Cardinality(Handled)
          /\ rec.failed_rows = failed_reported
    /\ jpc \in {"save", "done"} /\ Handled = RowIds
       => rec.processed_rows = Len(rows)

\* C2 witness: a job with an inner pool has reported all of its three rows,
\* some as failed and some not
C2_Witness ==
    /\ variant = "linkedin"
    /\ jpc = "save"
    /\ Len(rows) = 3
    /\ Handled = RowIds
    /\ rec.processed_rows = 3
    /\ failed_reported \in {1, 2}

\* C3: once the record's status is "completed" or "failed", no
\* later step changes the record.
C3_TerminalIsFinal == [][rec.status \in Terminal => rec' = rec]_vars

\* C4: the status is "completed" only when processed_rows =
\* total_rows and no job-level fatal error happens to the job, now or
\* later; and a job that ends with processed_rows = total_rows and no fatal
\* error ends "completed".
C4_CompletedIffAllRowsAndNoFatal ==
    [][/\ rec.status = "completed"
          => (rec.processed_rows = rec.total_rows /\ ~fatal /\ ~fatal')
       /\ (jpc' = "done" /\ rec'.processed_rows = rec'.total_rows /\ ~fatal')
          => rec'.status = "completed"]_vars

\* C5: the status "completed" is written at most once in a
\* job's life.
C5_CompletedWrittenOnce == completed_writes <= 1

\* C6: processed_rows never decreases, and always
\* 0 <= failed_rows <= processed_rows <= total_rows.
C6_ProgressMonotone ==
    /\ [](/\ 0 <= rec.failed_rows
          /\ rec.failed_rows <= rec.processed_rows
          /\ rec.processed_rows <= rec.total_rows)
    /\ [][rec'.processed_rows >= rec.processed_rows]_vars

\* C6 witness: all three rows counted, one or two of them failed
C6_Witness ==
    /\ rec.total_rows = 3
    /\ rec.processed_rows = 3
    /\ rec.failed_rows \in {1, 2}

\* C7: increment_job_progress is called exactly once for every row: never
\* twice, once for every row that has been dealt with, and when the rows
\* are done every row has been dealt with.
C7_OneIncrementPerRow ==
    /\ \A r \in RowIds :
        /\ inc_calls[r] <= 1
        /\ task[r] \in {"counting", "handled"} <=> inc_calls[r] = 1
    /\ jpc = "save" => Handled = RowIds

\* C7 witness: a finished table with a skipped row, a row whose handling
\* raised (marked "error" though the pipeline would have succeeded) and a
\* row that went through
C7_Witness ==
    /\ jpc = "save"
    /\ Len(rows) = 3
    /\ \E a, b, c \in RowIds :
        /\ scrape_status[a] = "skipped"
        /\ rows[b] = "success" /\ scrape_status[b] = "error"
        /\ scrape_status[c] = "success"

\* C8: when the rows are done, failed_rows is the number of
\* rows whose scrape_status is "skipped" or "error".
C8_FailedRowsTally ==
    jpc \in {"save", "done"}
    => rec.failed_rows =
         Cardinality({r \in RowIds : scrape_status[r] \in {"skipped", "error"}})

\* C24: a row whose handling raised is marked "error" and the job goes on:
\* the rows are all handled before the output is saved, the job ends before
\* that only at the loading of its input, and a job whose output was
\* uploaded ends "completed", whatever the rows' statuses.
C24_RowIsolation ==
    /\ \A r \in hist.raised :
          task[r] \in {"counting", "handled"} => scrape_status[r] = "error"
    /\ jpc = "save" => \A r \in RowIds : task[r] = "handled" /\ scrape_status[r] # ""
    /\ jpc = "done" =>
          \/ \A r \in RowIds : task[r] = "handled"
          \/ hist.raised = {} /\ \A r \in RowIds : scrape_status[r] = ""
    /\ (jpc = "done" /\ hist.uploads = 1) => rec.status = "completed"

\* C24 witness: of three rows the second raised, the others went through,
\* and the job ended "completed"
C24_Witness ==
    /\ jpc = "done"
    /\ Len(rows) = 3
    /\ hist.raised = {2}
    /\ scrape_status = <<"success", "error", "success">>
    /\ rec.status = "completed"
    /\ rec.output_path # ""

\* C25: for a row with a blank URL cell the pipeline is not called; unless
\* the collection of its result raised, the row is marked "skipped"; and
\* its increment adds one to processed_rows and one to failed_rows.
C25_BlankRowSkipped ==
    /\ [](\A r \in RowIds : rows[r] = "blank" =>
            /\ hist.invoked[r] = 0
            /\ (r \notin hist.raised /\ task[r] \in {"counting", "handled"})
                  => scrape_status[r] = "skipped")
    /\ [][\A r \in RowIds :
            (rows[r] = "blank" /\ task[r] = "counting" /\ task'[r] = "handled") =>
                /\ rec'.processed_rows = rec.processed_rows + 1
                /\ rec'.failed_rows = rec.failed_rows + 1]_vars

\* C25 witness: a blank row between two others was skipped by the LinkedIn
\* job and counted as failed
C25_Witness ==
    /\ variant = "linkedin"
    /\ Len(rows) = 3
    /\ rows[2] = "blank"
    /\ task[2] = "handled"
    /\ scrape_status[2] = "skipped"
    /\ hist.invoked = <<1, 0, 1>>
    /\ rec.failed_rows = 1

\* C26: when the table was read and the designated URL column is not among
\* its columns, the job is failed with a message that names the missing
\* column and lists the columns that exist, the pipeline was called for no
\* row, processed_rows is 0 and nothing was uploaded.
C26_MissingColumnFails ==
    (hist.read /\ website_column \notin Range(columns)) =>
        /\ jpc = "done"
        /\ rec.status = "failed"
        /\ rec.error = <<"Column '", website_column,
                         "' not found in CSV. Available columns: ">>
                       \o JoinComma(columns)
        /\ \A c \in Range(columns) : c \in Range(rec.error)
        /\ \A r \in RowIds : hist.invoked[r] = 0 /\ scrape_status[r] = ""
        /\ rec.processed_rows = 0
        /\ rec.failed_rows = 0
        /\ hist.uploads = 0
        /\ rec.output_path = ""

\* C26 witness: a LinkedIn job over a three-row table with the columns
\* name and url, asked for the column website, has failed
C26_Witness ==
    /\ variant = "linkedin"
    /\ Len(rows) = 3
    /\ columns = <<"name", "url">>
    /\ website_column = "website"
    /\ hist.read
    /\ rec.status = "failed"
    /\ rec.error = <<"Column '", "website", "' not found in CSV. Available columns: ",
                     "name", ", ", "url">>

\* C27: when the rows are all processed and the output is not persisted,
\* the job ends "failed" with an error message, no output_path and
\* processed_rows = total_rows; and the rows' being processed has not made
\* the job "completed" when the saving fails.
C27_SaveFailureFails ==
    /\ []((jpc = "done" /\ hist.read /\ website_column \in Range(columns)
            /\ hist.uploads = 0) =>
              /\ rec.status = "failed"
              /\ rec.error \in {UploadFailed, ExceptionText}
              /\ rec.output_path = ""
              /\ rec.processed_rows = rec.total_rows)
    /\ [][(jpc = "save" /\ jpc' = "done" /\ hist'.uploads = hist.uploads) =>
              rec.status # "completed"]_vars

\* the rows whose pipeline call is under way
InPipeline == {r \in RowIds : task[r] = "running"}

\* C28: at no time are more than csv_concurrent_workers rows of the job in
\* the pipeline, however many rows the table has; the sequential job has at
\* most one.
C28_InnerPoolBound ==
    /\ Cardinality(InPipeline) <= ConcurrentWorkers
    /\ variant = "csv" => Cardinality(InPipeline) <= 1

\* C28 witness: the executor's threads are all busy and a submitted row waits
C28_Witness ==
    /\ variant = "linkedin"
    /\ Cardinality(InPipeline) = ConcurrentWorkers
    /\ \E r \in RowIds : task[r] = "pending"

\* C29: whatever the order in which the row tasks complete and are
\* collected, output row i receives the result computed for input row i and
\* nothing else: a row that was not collected yet is still empty, and a
\* collected row holds its own row_data.
C29_RowIdentityByIndex ==
    \A i \in RowIds :
        /\ hist.origin[i] \in {0, i}
        /\ task[i] \in {"pending", "running", "finished"} => scrape_status[i] = ""
        /\ (variant = "linkedin" /\ task[i] \in {"counting", "handled"}) =>
              /\ hist.origin[i] = i
              /\ row_data[i].index = i
              /\ i \notin hist.raised => scrape_status[i] = row_data[i].scrape_status

\* C29 witness: the last row's task was collected first, while the first
\* row, of another kind, is not collected yet
C29_Witness ==
    /\ variant = "linkedin"
    /\ Len(rows) = 3
    /\ rows[1] = "blank" /\ rows[3] = "success"
    /\ task[1] = "finished" /\ task[2] = "running" /\ task[3] = "handled"
    /\ hist.origin = <<0, 0, 3>>
    /\ scrape_status = <<"", "", "success">>

\* C34: a record whose status is "completed" has its output_path set.
C34_CompletedHasOutput == rec.status = "completed" => rec.output_path # ""

\* C35: under SpecJobLive (the threads run and every call returns) the job
\* function ends and from then on the record is "completed" or "failed",
\* whichever way the job went: a missing download or column, rows that
\* raise, an upload that fails, an exception anywhere.
C35_JobEndsTerminal == <>[](jpc = "done" /\ rec.status \in Terminal)

\* C35 witness: the rows of a LinkedIn job were all handled, one of them by
\* the except clause, then the saving raised and the job ended "failed"
C35_Witness ==
    /\ variant = "linkedin"
    /\ jpc = "done"
    /\ Len(rows) = 2
    /\ Handled = RowIds
    /\ hist.raised = {1}
    /\ fatal
    /\ rec.status = "failed"
    /\ rec.error = ExceptionText

----------------------------------------------------------------------------
(* Properties of the scrape pipeline (specification SpecPipe) *)

\* the cache key of the call in progress
Key == CacheKey(pipeline, website)

\* the call has returned a result built from a cached document
HitReturned == ppc = "returned" /\ trace.hit

\* the emails, phones and LinkedIn sets of a result
ResultSets(r) ==
    IF r.kind = "ContactInfo"
    THEN [emails |-> r.emails, phones |-> r.phones,
          company |-> r.linkedin_urls.company, personal |-> r.linkedin_urls.personal]
    ELSE [emails |-> <<>>, phones |-> <<>>,
          company |-> r.company_linkedin, personal |-> r.personal_linkedin]

\* the emails, phones and LinkedIn sets of a cached document
DocSets(p, doc) ==
    IF p = "full"
    THEN [emails |-> doc.emails, phones |-> doc.phones,
          company |-> doc.linkedin_urls.company, personal |-> doc.linkedin_urls.personal]
    ELSE [emails |-> <<>>, phones |-> <<>>,
          company |-> doc.company_linkedin, personal |-> doc.personal_linkedin]

\* C14: on a cache hit the pipeline fetches no page, calls no AI capability,
\* does not write the cache, and returns the cached record verbatim:
\* website, emails, phones, LinkedIn sets and the status of the result that
\* was cached.
C14_HitReturnsCachedRecord ==
    HitReturned =>
        /\ fetched = <<>>
        /\ ai_calls = <<>>
        /\ cache_ops = << <<"get", Key>> >>
        /\ result.website = website
        /\ ResultSets(result) = DocSets(pipeline, cache[Key])
        /\ result.status = written_status[Key]

\* C15: a site without emails, phones and LinkedIn URLs gives the status
\* "no_contacts_found" and an empty cached record, and a later call that
\* hits this record returns "no_contacts_found" too, without a fetch.
C15_EmptyResultCached ==
    /\ (ppc = "returned" /\ ~trace.hit /\ trace.home = "ok" /\ IsEmpty(found)) =>
          /\ result.status = "no_contacts_found"
          /\ Key \in DOMAIN cache
          /\ IsEmpty(DocSets(pipeline, cache[Key]))
    /\ (HitReturned /\ written_status[Key] = "no_contacts_found") =>
          /\ fetched = <<>>
          /\ result.status = "no_contacts_found"

\* C16: when the validation call raises or answers with text that is not
\* JSON, the pipeline returns a ContactInfo with no emails, no phones and
\* the LinkedIn sets it had before the validation, with validate_linkedin
\* true or false.
C16_ValidationFallback ==
    (ppc = "returned" /\ trace.validate \in {"raise", "unparsable"}) =>
        /\ result.kind = "ContactInfo"
        /\ result.emails = <<>>
        /\ result.phones = <<>>
        /\ result.linkedin_urls = [company |-> found.company, personal |-> found.personal]

\* C16 witness: the validation of LinkedIn URLs was requested, the call
\* raised, and the result carries the LinkedIn URLs that were found
C16_Witness ==
    /\ ppc = "returned"
    /\ trace.validate = "raise"
    /\ validate_linkedin
    /\ found.company # {}
    /\ found.emails # <<>>
    /\ result.linkedin_urls.company = found.company

\* C17: whatever the validation call does (raises, answers with text that
\* is not JSON, answers with a value that is not an object or with fields
\* that are not lists), the pipeline ends in success with a ContactInfo.
C17_ValidationNeverFatal ==
    (ppc = "returned" /\ trace.validate # "none") =>
        /\ result.kind = "ContactInfo"
        /\ result.status = "success"

\* C18: if find_contact_page gives nothing, malformed output or the homepage
\* itself, or fails, there is no second fetch; if the fetch of the contact
\* page fails its data is ignored.  In these cases the pipeline goes on with
\* the homepage's sets, and the status is the one these produce:
\* "no_contacts_found" exactly when they are empty.
C18_ContactPagePathNotFatal ==
    /\ trace.find \in {"raise", "unparsable", "malformed", "no_page", "homepage"} =>
          /\ fetched = <<website>>
          /\ trace.contact = "none"
    /\ (trace.find \notin {"none", "url"} \/ trace.contact = "failed") =>
          /\ found = home
          /\ ppc \in {"empty_check", "validate", "returned"}
          /\ ppc \in {"empty_check", "validate"} => result = NoResult
          /\ ppc = "returned" => (result.status = "no_contacts_found" <=> IsEmpty(home))

\* C18 witness: the assistant named the homepage itself, and the call
\* returned the homepage's contacts
C18_Witness ==
    /\ ppc = "returned"
    /\ trace.find = "homepage"
    /\ ~IsEmpty(home)
    /\ result.status = "success"
    /\ result.emails = home.emails

\* C19: when the fetch of the homepage fails, the pipeline returns an error
\* that names the homepage fetch; nothing was extracted, no AI capability
\* was called and the cache was not written.
C19_HomepageFetchFailure ==
    (ppc = "returned" /\ trace.home = "failed") =>
        /\ result = ErrorResponse(pipeline, website, "Failed to fetch homepage")
        /\ found = EmptyPage
        /\ fetched = <<website>>
        /\ ai_calls = <<>>
        /\ cache_ops = << <<"get", Key>> >>

\* C19 witness: a call of the full pipeline whose homepage fetch failed
C19_Witness ==
    /\ ppc = "returned"
    /\ pipeline = "full"
    /\ trace.home = "failed"
    /\ result.status = "error"

\* C20: for an input that names no host, normalization fails and the
\* pipeline returns an error at once: no fetch, no AI call, no cache
\* access.
C20_InvalidUrlShortCircuits ==
    (ppc = "returned" /\ raw \in HostlessInputs) =>
        /\ ~normalize_url(raw).ok
        /\ result = ErrorResponse(pipeline, raw, "Invalid URL")
        /\ fetched = <<>>
        /\ ai_calls = <<>>
        /\ cache_ops = <<>>

\* C20 witness: scrape_linkedin_only was called with " /p" and returned
\* an error
C20_Witness ==
    /\ ppc = "returned"
    /\ pipeline = "linkedin"
    /\ raw = <<" ", "/", "p">>
    /\ result.kind = "LinkedInErrorResponse"

\* the values of the four categories, as sets
Values(f) ==
    [emails |-> Range(f.emails), phones |-> Range(f.phones),
     company |-> f.company, personal |-> f.personal]

\* C21: after a successful fetch of the contact page, the values that go to
\* the empty check and to the validation are, in each category, the union of
\* the homepage's and the contact page's values.
C21_UnionNotReplacement ==
    trace.contact = "ok" =>
        /\ ppc \in {"empty_check", "validate", "returned"}
        /\ Values(found).emails = Values(home).emails \cup Values(trace.c_found).emails
        /\ Values(found).phones = Values(home).phones \cup Values(trace.c_found).phones
        /\ found.company = home.company \cup trace.c_found.company
        /\ found.personal = home.personal \cup trace.c_found.personal

\* C21 witness: the homepage holds e1 and p1, the contact page e2 and a
\* company URL, and all of them go to the validation
C21_Witness ==
    /\ ppc = "validate"
    /\ trace.contact = "ok"
    /\ home.emails = <<"e1">>
    /\ trace.c_found.emails = <<"e2">>
    /\ found.emails = <<"e1", "e2">>
    /\ found.phones = <<"p1">>
    /\ found.company = {"c1"}

\* the keys the call at hand has read or written
KeysUsed == {cache_ops[i][2] : i \in 1..Len(cache_ops)}

\* the documents of the two pipelines have different fields
IsContactDoc(doc) == DOMAIN doc = {"website", "emails", "phones", "linkedin_urls"}

IsLinkedInDoc(doc) == DOMAIN doc = {"company_linkedin", "personal_linkedin"}

\* C31: a LinkedIn-only call makes no AI call, fetches at most one page and
\* uses "linkedin:" keys only; a full call uses "contact:" keys only; every
\* "contact:" entry is a document of the full pipeline and every "linkedin:"
\* entry one of the LinkedIn-only pipeline, so a result built from the cache
\* comes from a document the same pipeline wrote.
C31_SeparateNamespaces ==
    /\ (ppc # "idle" /\ pipeline = "linkedin") =>
          /\ ai_calls = <<>>
          /\ Len(fetched) <= 1
          /\ \A k \in KeysUsed :
                startswith(k, linkedin_prefix) /\ ~startswith(k, contact_prefix)
    /\ (ppc # "idle" /\ pipeline = "full") =>
          \A k \in KeysUsed :
                startswith(k, contact_prefix) /\ ~startswith(k, linkedin_prefix)
    /\ \A k \in DOMAIN cache :
          \/ startswith(k, contact_prefix) /\ IsContactDoc(cache[k])
          \/ startswith(k, linkedin_prefix) /\ IsLinkedInDoc(cache[k])
    /\ (HitReturned /\ pipeline = "linkedin") =>
          /\ result.kind = "LinkedInOnlyResponse"
          /\ IsLinkedInDoc(cache[linkedin_prefix \o website])
    /\ (HitReturned /\ pipeline = "full") =>
          /\ result.kind = "ContactInfo"
          /\ IsContactDoc(cache[contact_prefix \o website])

\* C31 witness: the site has an entry of the full pipeline, and a
\* LinkedIn-only call for the same site missed, fetched the homepage and
\* wrote its own entry
C31_Witness ==
    /\ pipeline = "linkedin"
    /\ ppc = "returned"
    /\ ~trace.hit
    /\ contact_prefix \o website \in DOMAIN cache
    /\ linkedin_prefix \o website \in DOMAIN cache
    /\ cache_ops = << <<"get", linkedin_prefix \o website>>,
                      <<"setex", linkedin_prefix \o website>> >>
    /\ Len(fetched) = 1
    /\ result.status = "success"

\* C32: in a call of scrape_website with skip_contact_page set, the contact
\* page is neither guessed nor fetched and the values that go on are the
\* homepage's; the empty check, the validation and the cache write take place
\* as without the flag: an empty homepage gives "no_contacts_found" and a
\* cached empty record, any other is validated once, and every result that
\* is not an error was written to the cache.
C32_SkipFlag ==
    (pipeline = "full" /\ skip_contact_page /\ ppc # "idle") =>
        /\ "find_contact_page" \notin Range(ai_calls)
        /\ Len(fetched) <= 1
        /\ trace.find = "none"
        /\ trace.contact = "none"
        /\ contact_page = None
        /\ ppc \in {"empty_check", "validate"} => found = home
        /\ (ppc = "returned" /\ ~trace.hit /\ trace.home = "ok") =>
              /\ found = home
              /\ fetched = <<website>>
              /\ IsEmpty(home) =>
                    /\ ai_calls = <<>>
                    /\ result.status = "no_contacts_found"
              /\ ~IsEmpty(home) =>
                    /\ ai_calls = <<"validate_contacts">>
                    /\ trace.validate # "none"
              /\ result.status # "error" =>
                    /\ cache_ops = << <<"get", Key>>, <<"setex", Key>> >>
                    /\ Key \in DOMAIN cache
                    /\ ResultSets(result) = DocSets(pipeline, cache[Key])

\* C32 witness: with the flag set, a homepage with an email and a phone was
\* validated and cached after one fetch and one AI call
C32_Witness ==
    /\ pipeline = "full"
    /\ skip_contact_page
    /\ ppc = "returned"
    /\ trace.validate = "ok"
    /\ home.emails = <<"e1">>
    /\ result.status = "success"
    /\ result.emails = <<"e1">>
    /\ fetched = <<website>>
    /\ ai_calls = <<"validate_contacts">>
    /\ Key \in DOMAIN cache

\* C38: every page the call fetches is on the host of the normalized URL.
C38_FetchesStayOnHost ==
    \A i \in 1..Len(fetched) : urlparse(fetched[i]).netloc = urlparse(website).netloc

\* the validation of this call failed and validate_contacts fell back
ValidationFailed ==
    \/ trace.validate \in {"raise", "unparsable"}
    \/ trace.validate = "not_object" /\ ~validate_linkedin

\* C39: the record of a call whose validation failed (no emails, no phones,
\* the LinkedIn URLs as found) is written to the cache under the normalized
\* URL like a validated one; and a later call that finds this entry returns
\* the emptied record without a fetch and without a new validation.
C39_FallbackRecordCached ==
    /\ (ppc = "returned" /\ ValidationFailed) =>
          /\ cache_ops = << <<"get", Key>>, <<"setex", Key>> >>
          /\ Key = contact_prefix \o normalize_url(raw).url
          /\ Key \in written_fallback
          /\ cache[Key] = ContactDoc(website, <<>>, <<>>, found.company, found.personal)
          /\ result = ContactInfo(website, <<>>, <<>>, found.company, found.personal,
                                  "success")
    /\ (HitReturned /\ Key \in written_fallback) =>
          /\ fetched = <<>>
          /\ ai_calls = <<>>
          /\ cache_ops = << <<"get", Key>> >>
          /\ result.emails = <<>>
          /\ result.phones = <<>>
          /\ result.linkedin_urls = cache[Key].linkedin_urls

\* C39 witness: a second call for the site is served the record that a failed
\* validation left in the cache: the LinkedIn URLs, no emails, no phones
C39_Witness ==
    /\ HitReturned
    /\ calls = 2
    /\ Key \in written_fallback
    /\ result.emails = <<>>
    /\ result.linkedin_urls.company = {"c1"}
    /\ result.status = "success"

----------------------------------------------------------------------------
(* Properties of the contact job with its pipeline calls (specification *)
(* SpecBatch)                                                            *)

\* how many times x occurs in the sequence q
Occurrences(q, x) == Cardinality({i \in 1..Len(q) : q[i] = x})

\* the rows up to the row at hand that have a URL
RowsWithUrl == {r \in 1..cur : rows[r] # "blank"}

\* C30: in one call of the pipeline the homepage is fetched at most once,
\* the contact page is guessed at most once and fetched at most once, the
\* contacts are validated at most once, so at most two pages are fetched;
\* and the job has called the pipeline at most once for each row it has
\* reached, whether the earlier calls failed or not.
C30_NothingRetried ==
    /\ Len(fetched) <= 2
    /\ Occurrences(fetched, website) <= 1
    /\ Len(fetched) - Occurrences(fetched, website) <= 1
    /\ Occurrences(ai_calls, "find_contact_page") <= 1
    /\ Occurrences(ai_calls, "validate_contacts") <= 1
    /\ Len(ai_calls) <= 2
    /\ calls <= Cardinality(RowsWithUrl)
    /\ \A r \in RowIds : hist.invoked[r] <= 1

\* C30 witness: the first row's homepage could not be fetched and the row
\* is marked "error"; the call for the second row has fetched two pages and
\* asked the AI twice, and the pipeline was called twice in all
C30_Witness ==
    /\ Len(rows) = 2
    /\ scrape_status[1] = "error"
    /\ 1 \notin hist.raised
    /\ cur = 2
    /\ calls = 2
    /\ ppc = "returned"
    /\ Len(fetched) = 2
    /\ ai_calls = <<"find_contact_page", "validate_contacts">>
    /\ result.status = "success"

----------------------------------------------------------------------------
(* Properties of two overlapping calls (specification SpecRace) *)

\* C37: of two calls of the pipeline for the same normalized URL, at most
\* one gets the homepage: the call that comes second finds what the first
\* one cached.
C37_AtMostOneFetches ==
    Cardinality({i \in Invocations : inv[i].home = "ok"}) <= 1

----------------------------------------------------------------------------
(* Properties of normalize_url (specification SpecNorm) *)

\* C22: normalize_url is idempotent: normalizing an accepted text's result
\* once more is accepted and gives the same text.
C22_Idempotent ==
    norm_pc = "twice" =>
        /\ norm_again.ok
        /\ norm_again.url = norm_out.url

\* the host of a key: what stands between "http://" and the first "/"
HostOf(key) == urlparse(key).netloc

\* the key has the scheme "http", a lowercase host without a leading "www."
\* and no trailing slash
Canonical(key) ==
    /\ startswith(key, http_prefix)
    /\ HostOf(key) # <<>>
    /\ HostOf(key) = lower(HostOf(key))
    /\ ~startswith(HostOf(key), www_prefix)
    /\ key[Len(key)] # "/"

\* C23: raw texts that differ only in the scheme (absent, http or https, in
\* any letter case), a leading "www.", the letter case of the host or
\* trailing slashes have the same key, and every key is canonical.
C23_SpellingsShareKey ==
    norm_pc \in {"once", "twice"} =>
        /\ norm_plain_out.ok
        /\ norm_out.url = norm_plain_out.url
        /\ Canonical(norm_out.url)

====
